---- MODULE Spec2Model ----
(***************************************************************************)
(* Mesh fetch pipeline of indra/newview/llmeshrepository.cpp:              *)
(* LLMeshRepository (main-thread registry), LLMeshRepoThread (the repo     *)
(* worker and its run() loop), the HTTP completion handlers, the           *)
(* two-thread parse pool and the on-disk mesh cache.                       *)
(***************************************************************************)
EXTENDS Integers, Sequences, FiniteSets, Bags, TLC

\* ---------------------------------------------------------------- bounds
\* Objects (LLVOVolume instances) that may ask for meshes.
NumObjects == 2
\* Registry API calls (loadMesh, getSkinInfo, unregisterMesh) with an effect that
\* the environment makes.
MaxCalls == 2
\* Times the HTTP layer may refuse to issue a request (invalid handle).
MaxRefusals == 1
\* loadMesh calls in the specification with a refusing HTTP layer.
MaxRefusedCalls == 2
\* loadMesh is called with LODs 0..MaxReqLod.
MaxReqLod == 1
\* Scaled-down range of the high-water mark (the program clamps it to
\* REQUEST2_HIGH_WATER_MIN..REQUEST2_HIGH_WATER_MAX, 32..100).
HighWaterLow == 1
HighWaterHigh == 2
\* Registry API calls in the specification with decomposition and physics shape
\* requests.
MaxPhysicsCalls == 3
\* Consecutive notifyLoadedMeshes calls that may fail to get their locks.
MaxHoldOffs == 2
\* Registry API calls in the specification with lock operations.
MaxLockCalls == 2
\* Upload results that may wait in mInventoryQ.
MaxUploads == 1
\* Registry API calls in the specification of the dispatch order.
MaxDispatchCalls == 3
\* Registry API calls in the specification of the viewer that finds a cache.
MaxCachedCalls == 2
\* Registry API calls in the specification of the viewer that is told to quit.
MaxExitCalls == 2
\* Requests the HTTP layer refuses in that specification.
MaxExitRefusals == 1
\* Requests that may wait in the physics decomposer's mRequestQ.
MaxDecompRequests == 2
\* Upload threads the registry may start.
MaxUploadThreads == 2
\* loadMesh calls in the specification with progress conditions.
MaxLiveCalls == 2
\* loadMesh calls in the specification of the pending LOD requests.
MaxPendingCalls == 2
\* Registry API calls in the specification of the accesses to the request queues.
MaxQueueCalls == 2
\* Completions that may wait in mLoadedQ or mSkinInfoQ, and closures that may
\* wait in mWorkQueue, in the specification of the skin maps.
MaxSkinQueue == 1
\* Buffers allocated and loadMesh calls in the specification of the buffers.
MaxBuffers == 3
MaxBufferCalls == 2
\* Models of an upload in the specification of the hulls.
MaxModels == 3
\* loadMesh calls in the specification of the six mutexes.
MaxMutexCalls == 2
MaxWorkQueue == 2

\* ------------------------------------------------------ program constants
CACHE_PREAMBLE_VERSION == 1
CACHE_PREAMBLE_SIZE == 12
MESH_HEADER_SIZE == 4096
DOWNLOAD_RETRY_LIMIT == 8
\* DOWNLOAD_RETRY_DELAY, 0.5 s, in milliseconds
DOWNLOAD_RETRY_DELAY == 500
MAX_MESH_VERSION == 999
NUM_LODS == 4

Lods == 0 .. (NUM_LODS - 1)
Objects == 1 .. NumObjects
MeshIds == {"A"}

\* ------------------------------------------------------------- utilities
MapPut(m, k, v) == [x \in (DOMAIN m) \cup {k} |-> IF x = k THEN v ELSE m[x]]
MapErase(m, k) == [x \in (DOMAIN m) \ {k} |-> m[x]]
EmptyMap == [x \in {} |-> 0]
Min(a, b) == IF a < b THEN a ELSE b
Max(a, b) == IF a > b THEN a ELSE b
SeqToSet(s) == {s[i] : i \in DOMAIN s}
NoDuplicates(s) == \A i, j \in DOMAIN s : i # j => s[i] # s[j]

\* ------------------------------------------------ the assets on the server
\* Section offsets are relative to the end of the LLSD header, as in the
\* header's "offset"/"size" fields; a size of 0 means the section is absent.
AssetSmall ==
    [version |-> 1, header_size |-> 200, total |-> 2000,
     lod_offset |-> [l \in Lods |-> IF l = 1 THEN 800 ELSE 0],
     lod_size |-> [l \in Lods |-> IF l = 0 THEN 800 ELSE IF l = 1 THEN 1000 ELSE 0],
     skin_offset |-> 0, skin_size |-> 0,
     physics_convex_offset |-> 0, physics_convex_size |-> 0,
     physics_mesh_offset |-> 0, physics_mesh_size |-> 0]
AssetLarge ==
    [version |-> 1, header_size |-> 200, total |-> 8800,
     lod_offset |-> [l \in Lods |-> IF l = 1 THEN 5000 ELSE 0],
     lod_size |-> [l \in Lods |-> IF l = 0 THEN 1000 ELSE IF l = 1 THEN 3000 ELSE 0],
     skin_offset |-> 1000, skin_size |-> 4000,
     physics_convex_offset |-> 8000, physics_convex_size |-> 300,
     physics_mesh_offset |-> 8300, physics_mesh_size |-> 300]
\* An asset whose header lists no LOD: getActualMeshLOD finds none and the header
\* is treated as 404.
AssetNoLods ==
    [version |-> 1, header_size |-> 200, total |-> 300,
     lod_offset |-> [l \in Lods |-> 0],
     lod_size |-> [l \in Lods |-> 0],
     skin_offset |-> 0, skin_size |-> 0,
     physics_convex_offset |-> 0, physics_convex_size |-> 0,
     physics_mesh_offset |-> 0, physics_mesh_size |-> 0]
Assets == {AssetSmall, AssetLarge, AssetNoLods}
\* An asset that fits the first fetch and has no LOD 1.
AssetOneLod ==
    [AssetSmall EXCEPT !.total = 1000,
                       !.lod_offset = [l \in Lods |-> 0],
                       !.lod_size = [l \in Lods |-> IF l = 0 THEN 800 ELSE 0]]

VARIABLES
    asset,              \* what the server holds for each mesh id
    calls,              \* registry API calls so far that changed the registry
    refusals,           \* HTTP issue refusals so far
    mLoadingMeshes,     \* <<id, lod>> -> mVolumes, objects waiting for that LOD
    mLoadingSkins,      \* id -> mVolumes, objects waiting for the skin
    mPendingRequests,   \* registry's pending requests, not yet handed to the worker
    mSkinMap,           \* ids whose skin info is resident
    mMeshHeader,        \* id -> parsed header record
    mPendingLOD,        \* id -> per-LOD pending counts while the header is fetched
    mHeaderReqQ,        \* worker queue of header requests
    mLODReqQ,           \* worker queue of LOD requests
    mSkinRequests,      \* worker queue of skin requests
    mHttpRequestSet,    \* bag of outstanding HTTP handlers
    sRequestHighWater,  \* high-water mark
    mLoadedQ,           \* completions: loaded LODs
    mUnavailableQ,      \* completions: unavailable LODs
    mSkinInfoQ,         \* completions: skin infos
    mSkinUnavailableQ,  \* completions: unavailable skins
    runPc,              \* position of the repo worker in run(): "update" (waiting for the
                        \* signal, then dispatching completions), "skin", "lod", "header"
    incomplete,         \* run()'s local list of requests to put back
    poolTasks,          \* tasks posted to mMeshThreadPool
    cache,              \* id -> cache file
    lodLoaded,          \* <<id, lod>> whose bytes were parsed into a volume
    notified,           \* calls made on the objects by the last notifyLoadedMeshes
    lastResponse,       \* what the transport handed to the last onCompleted
    mLoadingDecompositions,         \* ids whose decomposition was asked for
    mLoadingPhysicsShapes,          \* ids whose physics shape was asked for
    mPendingDecompositionRequests,  \* registry queue of decomposition requests
    mPendingPhysicsShapeRequests,   \* registry queue of physics shape requests
    mDecompositionMap,              \* id -> decomposition resident in the registry
    mDecompositionRequests,         \* worker set of decomposition requests
    mPhysicsShapeRequests,          \* worker set of physics shape requests
    mDecompositionQ,                \* completions: decompositions
    mutex,                          \* mutex -> the thread that owns it and how often
    lockOps,                        \* thread -> lock operations left in its code path
    hold_offs,                      \* notifyLoadedMeshes calls in a row without the locks
    mInventoryQ,                    \* upload results waiting for the main thread
    exiting,                        \* the flags and positions of the shutdown: see
                                    \* isExiting, mQuitting, repoAt, decompAt, mRequestQ,
                                    \* shutdownAt below
    mUploads,                       \* the upload threads the registry holds
    skins                           \* the worker's copy of the skin map, the entries of
                                    \* the registry's map that have an external holder and
                                    \* the closures posted to the worker: see
                                    \* mThread_mSkinMap, referenced, mWorkQueue below
    ,
    heap                            \* the byte buffers of the fetches, how often each was
                                    \* deleted, the lambdas posted to the parse pool and
                                    \* the worker's shutdown flag: see mShuttingDown,
                                    \* deletes, posted_tasks, paths below
    ,
    decomposer                      \* the decomposition worker's position and queues
                                    \* and the upload thread inside generateHulls

vars == <<asset, calls, refusals, mLoadingMeshes, mLoadingSkins, mPendingRequests,
          mSkinMap, mMeshHeader, mPendingLOD, mHeaderReqQ, mLODReqQ, mSkinRequests,
          mHttpRequestSet, sRequestHighWater, mLoadedQ, mUnavailableQ, mSkinInfoQ,
          mSkinUnavailableQ, runPc, incomplete, poolTasks, cache, lodLoaded, notified,
          lastResponse, mLoadingDecompositions, mLoadingPhysicsShapes,
          mPendingDecompositionRequests, mPendingPhysicsShapeRequests, mDecompositionMap,
          mDecompositionRequests, mPhysicsShapeRequests, mDecompositionQ,
          mutex, lockOps, hold_offs, mInventoryQ,
          exiting, mUploads, skins, heap, decomposer>>

registryVars == <<mLoadingMeshes, mLoadingSkins, mPendingRequests, mSkinMap>>
queueVars == <<mHeaderReqQ, mLODReqQ, mSkinRequests>>
completionVars == <<mLoadedQ, mUnavailableQ, mSkinInfoQ, mSkinUnavailableQ>>
decompVars == <<mLoadingDecompositions, mLoadingPhysicsShapes,
                mPendingDecompositionRequests, mPendingPhysicsShapeRequests,
                mDecompositionMap, mDecompositionRequests, mPhysicsShapeRequests,
                mDecompositionQ>>
lockVars == <<mutex, lockOps, hold_offs, mInventoryQ>>
exitVars == <<exiting, skins, heap, decomposer>>

\* LLApp::isExiting(); LLPhysicsDecomp::mQuitting; where the repo worker is in
\* the outer loop of LLMeshRepoThread::run and the decomposition worker in
\* LLPhysicsDecomp::run; the requests queued for the decomposition worker; where
\* the main thread is in LLMeshRepository::shutdown.
isExiting == exiting.isExiting
mQuitting == exiting.mQuitting
repoAt == exiting.repoAt
decompAt == exiting.decompAt
mRequestQ == exiting.mRequestQ
shutdownAt == exiting.shutdownAt

\* LLMeshRepoThread::mSkinMap, the worker's own copies of the skin infos; the
\* identifiers whose LLMeshSkinInfo in LLMeshRepository::mSkinMap is referenced
\* from outside the map (getNumRefs() > 1); LLMeshRepoThread::mWorkQueue, the
\* closures posted to the worker, each erasing one identifier.
mThread_mSkinMap == skins.mSkinMap
referenced == skins.held
mWorkQueue == skins.mWorkQueue
\* LLMeshRepoThread::mShuttingDown; the number of delete[] done on each buffer
\* allocated so far; the lambdas in the parse pool's queue; the handler paths
\* the last onCompleted went through.
mShuttingDown == heap.mShuttingDown
deletes == heap.deletes
posted_tasks == heap.tasks
paths == heap.paths

\* ---------------------------------------------------------------- mutexes
\* The threads that take the mutexes: the main (render) thread, the repo worker
\* and a thread of the parse pool.
Threads == {"main", "repo", "pool"}

\* LLMeshRepository::mMeshMutex and LLMeshRepoThread::mMutex, mHeaderMutex,
\* mPendingMutex, with their place in the lock order.
Mutexes == {"mMeshMutex", "mMutex", "mHeaderMutex", "mPendingMutex"}
Rank(m) ==
    CASE m = "mMeshMutex" -> 1
      [] m = "mMutex" -> 2
      [] m = "mHeaderMutex" -> 3
      [] OTHER -> 4

\* LLMutex is recursive: the owner may lock it again, and it is free again
\* when every lock was undone.
Unowned == [owner |-> "none", count |-> 0]
MayLock(t, m) == mutex[m].owner \in {"none", t}
Locked(mx, t, m) == [mx EXCEPT ![m] = [owner |-> t, count |-> @.count + 1]]
Unlocked(mx, m) ==
    [mx EXCEPT ![m] = IF @.count <= 1 THEN Unowned
                      ELSE [owner |-> @.owner, count |-> @.count - 1]]
Holds(t) == {m \in Mutexes : mutex[m].owner = t}
\* With LLMeshRepoThread::mLoadedMutex and mSkinMapMutex, which
\* notifyLoadedMeshes does not try and the lock order does not name.
AllMutexes == Mutexes \cup {"mLoadedMutex", "mSkinMapMutex"}

\* One lock operation of a code path, and a scope that takes one mutex.
LockOp(op, m) == [op |-> op, m |-> m]
Scope(m) == <<LockOp("lock", m), LockOp("unlock", m)>>

workerVars == <<mMeshHeader, mPendingLOD, mHttpRequestSet, runPc, incomplete,
                poolTasks, cache, lodLoaded, refusals>>

\* The repository and its worker as their constructors leave them.
ConstructedFrom(assets) ==
    /\ asset \in [MeshIds -> assets]
    /\ calls = 0
    /\ refusals = 0
    /\ mLoadingMeshes = EmptyMap
    /\ mLoadingSkins = EmptyMap
    /\ mPendingRequests = <<>>
    /\ mSkinMap = {}
    /\ mMeshHeader = EmptyMap
    /\ mPendingLOD = EmptyMap
    /\ mHeaderReqQ = <<>>
    /\ mLODReqQ = <<>>
    /\ mSkinRequests = <<>>
    /\ mHttpRequestSet = EmptyBag
    /\ sRequestHighWater = HighWaterLow
    /\ mLoadedQ = <<>>
    /\ mUnavailableQ = <<>>
    /\ mSkinInfoQ = <<>>
    /\ mSkinUnavailableQ = <<>>
    /\ runPc = "update"
    /\ incomplete = <<>>
    /\ poolTasks = EmptyBag
    /\ lodLoaded = {}
    /\ notified = <<>>
    /\ lastResponse = "none"
    /\ mLoadingDecompositions = {}
    /\ mLoadingPhysicsShapes = {}
    /\ mPendingDecompositionRequests = <<>>
    /\ mPendingPhysicsShapeRequests = <<>>
    /\ mDecompositionMap = EmptyMap
    /\ mDecompositionRequests = {}
    /\ mPhysicsShapeRequests = {}
    /\ mDecompositionQ = <<>>
    /\ mutex = [m \in AllMutexes |-> Unowned]
    /\ lockOps = [t \in Threads |-> <<>>]
    /\ hold_offs = 0
    /\ mInventoryQ = 0
    /\ exiting = [isExiting |-> FALSE, mQuitting |-> FALSE, repoAt |-> "test",
                  decompAt |-> "test", mRequestQ |-> 0, shutdownAt |-> "running"]
    /\ mUploads = <<>>
    /\ skins = [mSkinMap |-> {}, held |-> {}, mWorkQueue |-> <<>>]
    /\ heap = [mShuttingDown |-> FALSE, deletes |-> <<>>, tasks |-> {}, paths |-> <<>>]
    /\ decomposer = [at |-> "test", mRequestQ |-> <<>>, mCurRequest |-> 0,
                     mCompletedQ |-> <<>>, completed |-> <<>>,
                     upload |-> "idle", models |-> 0, requests |-> 0,
                     has_valid_requests |-> FALSE, mFinalDecomp |-> 0,
                     mPhysicsComplete |-> FALSE, mDiscarded |-> FALSE]

\* The viewer started with an empty asset cache.
Constructed == ConstructedFrom(Assets)

Init == Constructed /\ cache = EmptyMap

\* --------------------------------------------------- registry, main thread
PendingRequestLOD(id, lod) == [type |-> "lod", mId |-> id, mLOD |-> lod]
PendingRequestUUID(id) == [type |-> "skin", mId |-> id, mLOD |-> -1]

\* A loadMesh that adds the object to the entry without looking for it first:
\* the variant the once-per-object delivery has to tell apart.
loadMeshNoFind(vobj, id, new_lod) ==
    /\ calls < MaxCalls
    /\ calls' = calls + 1
    /\ IF <<id, new_lod>> \in DOMAIN mLoadingMeshes
       THEN /\ mLoadingMeshes' = [mLoadingMeshes EXCEPT ![<<id, new_lod>>] = Append(@, vobj)]
            /\ UNCHANGED mPendingRequests
       ELSE /\ mPendingRequests' = Append(mPendingRequests, PendingRequestLOD(id, new_lod))
            /\ mLoadingMeshes' = MapPut(mLoadingMeshes, <<id, new_lod>>, <<vobj>>)
    /\ UNCHANGED <<asset, lockVars, exitVars, mUploads,
                   decompVars, lastResponse, notified, mLoadingSkins, mSkinMap, queueVars,
                   completionVars,
                   workerVars, sRequestHighWater>>

\* LLMeshRepository::loadMesh(vobj, mesh_params, new_lod, last_lod), as long as
\* fewer than limit registry calls have been made
loadMeshWithin(limit, vobj, id, new_lod) ==
    /\ calls < limit
    /\ calls' = IF <<id, new_lod>> \in DOMAIN mLoadingMeshes
                    /\ vobj \in SeqToSet(mLoadingMeshes[<<id, new_lod>>])
                 THEN calls ELSE calls + 1
    /\ IF <<id, new_lod>> \in DOMAIN mLoadingMeshes
       THEN /\ mLoadingMeshes' =
                   IF vobj \in SeqToSet(mLoadingMeshes[<<id, new_lod>>])
                   THEN mLoadingMeshes
                   ELSE [mLoadingMeshes EXCEPT ![<<id, new_lod>>] = Append(@, vobj)]
            /\ UNCHANGED mPendingRequests
       ELSE /\ mPendingRequests' = Append(mPendingRequests, PendingRequestLOD(id, new_lod))
            /\ mLoadingMeshes' = MapPut(mLoadingMeshes, <<id, new_lod>>, <<vobj>>)
    /\ UNCHANGED <<asset, lockVars, exitVars, mUploads,
                   decompVars, lastResponse, notified, mLoadingSkins, mSkinMap, queueVars,
                   completionVars, workerVars,
                   sRequestHighWater>>

loadMesh(vobj, id, new_lod) == loadMeshWithin(MaxCalls, vobj, id, new_lod)

\* LLMeshRepository::getSkinInfo(mesh_id, requesting_obj), requesting_obj != nullptr
getSkinInfo(vobj, id) ==
    /\ calls < MaxCalls
    /\ calls' = IF id \in mSkinMap
                    \/ (id \in DOMAIN mLoadingSkins /\ vobj \in SeqToSet(mLoadingSkins[id]))
                 THEN calls ELSE calls + 1
    /\ IF id \in mSkinMap
       THEN UNCHANGED <<mLoadingSkins, mPendingRequests>>
       ELSE IF id \in DOMAIN mLoadingSkins
       THEN /\ mLoadingSkins' =
                   IF vobj \in SeqToSet(mLoadingSkins[id])
                   THEN mLoadingSkins
                   ELSE [mLoadingSkins EXCEPT ![id] = Append(@, vobj)]
            /\ UNCHANGED mPendingRequests
       ELSE /\ mLoadingSkins' = MapPut(mLoadingSkins, id, <<vobj>>)
            /\ mPendingRequests' = Append(mPendingRequests, PendingRequestUUID(id))
    /\ UNCHANGED <<asset, lockVars, exitVars, mUploads,
                   decompVars, lastResponse, notified, mLoadingMeshes, mSkinMap, queueVars,
                   completionVars, workerVars,
                   sRequestHighWater>>

\* vector_replace_with_last(mVolumes, vobj): the first occurrence is overwritten
\* by the last element and the vector shrinks by one.
vector_replace_with_last(v, vobj) ==
    IF vobj \notin SeqToSet(v) THEN v
    ELSE LET i == CHOOSE k \in DOMAIN v : v[k] = vobj /\ \A j \in 1 .. (k - 1) : v[j] # vobj
             n == Len(v)
         IN  IF i = n THEN SubSeq(v, 1, n - 1)
             ELSE SubSeq([v EXCEPT ![i] = v[n]], 1, n - 1)

\* LLMeshRepository::unregisterMesh(vobj)
unregisterMesh(vobj) ==
    /\ calls < MaxCalls
    /\ calls' = IF (\E m \in DOMAIN mLoadingMeshes : vobj \in SeqToSet(mLoadingMeshes[m]))
                    \/ (\E n \in DOMAIN mLoadingSkins : vobj \in SeqToSet(mLoadingSkins[n]))
                 THEN calls + 1 ELSE calls
    /\ mLoadingMeshes' = [k \in DOMAIN mLoadingMeshes |->
                              vector_replace_with_last(mLoadingMeshes[k], vobj)]
    /\ mLoadingSkins' = [k \in DOMAIN mLoadingSkins |->
                              vector_replace_with_last(mLoadingSkins[k], vobj)]
    /\ UNCHANGED <<asset, lockVars, exitVars, mUploads,
                   decompVars, lastResponse, notified, mPendingRequests, mSkinMap, queueVars,
                   completionVars, workerVars,
                   sRequestHighWater>>

\* LLMeshRepository::fetchPhysicsShape(mesh_id); nothing ever erases from
\* mLoadingPhysicsShapes.
fetchPhysicsShape(id) ==
    /\ calls < MaxPhysicsCalls
    /\ ~(id \in DOMAIN mDecompositionMap /\ mDecompositionMap[id].mPhysicsShapeMesh)
    /\ id \notin mLoadingPhysicsShapes
    /\ calls' = calls + 1
    /\ mLoadingPhysicsShapes' = mLoadingPhysicsShapes \cup {id}
    /\ mPendingPhysicsShapeRequests' = Append(mPendingPhysicsShapeRequests, id)
    /\ UNCHANGED <<asset, lockVars, exitVars, mUploads,
                   lastResponse, notified, refusals, registryVars, queueVars,
                   completionVars, workerVars, sRequestHighWater, mLoadingDecompositions,
                   mPendingDecompositionRequests, mDecompositionMap,
                   mDecompositionRequests, mPhysicsShapeRequests, mDecompositionQ>>

\* LLMeshRepository::getDecomposition(mesh_id); mBaseHullMesh is filled in by the
\* physics decomposer only, so it is empty in every decomposition held here.
getDecomposition(id) ==
    /\ calls < MaxPhysicsCalls
    /\ id \notin mLoadingDecompositions
    /\ calls' = calls + 1
    /\ mLoadingDecompositions' = mLoadingDecompositions \cup {id}
    /\ mPendingDecompositionRequests' = Append(mPendingDecompositionRequests, id)
    /\ UNCHANGED <<asset, lockVars, exitVars, mUploads,
                   lastResponse, notified, refusals, registryVars, queueVars,
                   completionVars, workerVars, sRequestHighWater, mLoadingPhysicsShapes,
                   mPendingPhysicsShapeRequests, mDecompositionMap,
                   mDecompositionRequests, mPhysicsShapeRequests, mDecompositionQ>>

\* ------------------------------------------------ requests held by the worker
\* RequestStats: mRetries and mTimer (started or not, and the period it was set to,
\* in milliseconds).
NewRequest(id, lod) ==
    [mId |-> id, mLOD |-> lod, mRetries |-> 0, started |-> FALSE, expiry |-> 0]
HeaderRequest(id) == NewRequest(id, -1)
LODRequest(id, lod) == NewRequest(id, lod)
\* ~LLMeshHeaderHandler / ~LLMeshLODHandler that push the request whatever
\* LLApp::isExiting() says: the variant the silence on exit has to tell apart.
DestroyedHeaderHandlerAlways(q, id) == Append(q, HeaderRequest(id))

\* ~LLMeshHeaderHandler of a handler that was not processed, on mHeaderReqQ.
DestroyedHeaderHandler(q, id) ==
    IF isExiting THEN q ELSE Append(q, HeaderRequest(id))

\* ~LLMeshLODHandler of a handler that was not processed, on mLODReqQ: it calls
\* lockAndLoadMeshLOD, and the header is stored (the handler was made by
\* fetchMeshLOD, which found it).
DestroyedLODHandler(q, id, lod) ==
    IF isExiting THEN q ELSE Append(q, LODRequest(id, lod))

UUIDBasedRequest(id) == NewRequest(id, -1)

\* LLMeshRepoThread::hasHeader
hasHeader(id) == id \in DOMAIN mMeshHeader

\* LLMeshRepoThread::loadMeshLOD on the queues q = [h, l, s, p]
\* (mHeaderReqQ, mLODReqQ, mSkinRequests, mPendingLOD)
loadMeshLOD(q, id, lod) ==
    IF hasHeader(id)
    THEN [q EXCEPT !.l = Append(@, LODRequest(id, lod))]
    ELSE IF id \in DOMAIN q.p
    THEN [q EXCEPT !.p[id][lod] = @ + 1]
    ELSE [q EXCEPT !.p = MapPut(q.p, id, [l \in Lods |-> IF l = lod THEN 1 ELSE 0]),
                   !.h = Append(@, HeaderRequest(id))]

\* LLMeshRepoThread::loadMeshSkinInfo
loadMeshSkinInfo(q, id) == [q EXCEPT !.s = Append(@, UUIDBasedRequest(id))]

\* std::set<UUIDBasedRequest>::insert: the requests are ordered by mId alone, so
\* a request is not inserted while one with the same mId is in the set.
SetInsert(S, req) == IF \E r \in S : r.mId = req.mId THEN S ELSE S \cup {req}
RECURSIVE SetInsertAll(_, _)
SetInsertAll(S, reqs) ==
    IF reqs = <<>> THEN S ELSE SetInsertAll(SetInsert(S, Head(reqs)), Tail(reqs))

\* LLMeshRepoThread::loadMeshDecomposition / loadMeshPhysicsShape for every id of
\* a registry queue
RECURSIVE loadMeshDecomposition(_, _)
loadMeshDecomposition(S, ids) ==
    IF ids = <<>> THEN S
    ELSE loadMeshDecomposition(SetInsert(S, UUIDBasedRequest(Head(ids))), Tail(ids))
loadMeshPhysicsShape(S, ids) == loadMeshDecomposition(S, ids)

Queues == [h |-> mHeaderReqQ, l |-> mLODReqQ, s |-> mSkinRequests, p |-> mPendingLOD]

\* ------------------------------------------ completions, main thread delivery
\* calculate_score(object): what the object's drawable reports (radius over distance).
calculate_score(vobj) == vobj

\* PendingRequestBase::updateScore over the tracked loading entry
updateScore(req) ==
    LET tracked == IF req.type = "lod"
                   THEN (IF <<req.mId, req.mLOD>> \in DOMAIN mLoadingMeshes
                         THEN mLoadingMeshes[<<req.mId, req.mLOD>>] ELSE <<>>)
                   ELSE (IF req.mId \in DOMAIN mLoadingSkins
                         THEN mLoadingSkins[req.mId] ELSE <<>>)
        scores == {calculate_score(tracked[i]) : i \in DOMAIN tracked} \cup {0}
    IN  CHOOSE m \in scores : \A x \in scores : x <= m

\* Handler objects alive, by kind: those in mHttpRequestSet and those a pool task
\* still holds (the handler constructors and destructors count them).
HandlersOfKind(bag, kind) ==
    LET hs == {h \in BagToSet(bag) : h.kind = kind}
        RECURSIVE Sum(_)
        Sum(S) == IF S = {} THEN 0
                  ELSE LET h == CHOOSE x \in S : TRUE IN CopiesIn(h, bag) + Sum(S \ {h})
    IN  Sum(hs)
sActiveHeaderRequests == HandlersOfKind(mHttpRequestSet, "header")
sActiveLODRequests == HandlersOfKind(mHttpRequestSet, "lod") + HandlersOfKind(poolTasks, "lod")
sActiveSkinRequests == HandlersOfKind(mHttpRequestSet, "skin") + HandlersOfKind(poolTasks, "skin")

\* A dispatch that takes the first n pending requests as they stand, without
\* sorting: the variant the score order has to tell apart.
FirstInQueue(P, n) == {[i \in DOMAIN P |-> i]}

\* The orders in which std::partial_sort by descending score (checkScore
\* recomputes the scores first) may leave the pending requests P: the old
\* positions in their new order. The first n are the n largest, in descending
\* order; the order of equal elements and of the rest is unspecified.
PartialSorts(P, n) ==
    LET mScore == [k \in DOMAIN P |-> updateScore(P[k])]
    IN  {sel \in Permutations(DOMAIN P) :
            \A i \in 1 .. n : \A k \in (i + 1) .. Len(P) :
                mScore[sel[k]] <= mScore[sel[i]]}

\* The rest of mPendingRequests, in the order sel, once its first k were
\* dispatched and erased.
Remaining(P, sel, k) == [i \in 1 .. (Len(sel) - k) |-> P[sel[k + i]]]

\* The dispatch loop of LLMeshRepository::notifyLoadedMeshes over the chosen requests.
RECURSIVE Dispatch(_, _, _, _)
Dispatch(q, P, sel, i) ==
    IF i > Len(sel) THEN q
    ELSE LET req == P[sel[i]]
             q2 == IF req.type = "lod" THEN loadMeshLOD(q, req.mId, req.mLOD)
                   ELSE loadMeshSkinInfo(q, req.mId)
         IN  Dispatch(q2, P, sel, i + 1)

Notification(what, id, lod, vobj) == [what |-> what, mId |-> id, mLOD |-> lod, vobj |-> vobj]

\* The elements of the sequence v that are in the set keep, in order.
RECURSIVE Select(_, _)
Select(v, keep) ==
    IF v = <<>> THEN <<>>
    ELSE (IF Head(v) \in keep THEN <<Head(v)>> ELSE <<>>) \o Select(Tail(v), keep)

\* LLMeshRepository::notifyMeshLoaded / notifyMeshUnavailable on the registry
\* r = [lm, ls, sm, n] (mLoadingMeshes, mLoadingSkins, mSkinMap, calls made on the
\* objects). The entry's objects in told get the call; the entry is erased.
notifyMesh(r, what, id, lod, told) ==
    IF <<id, lod>> \in DOMAIN r.lm
    THEN LET v == Select(r.lm[<<id, lod>>], told)
         IN  [r EXCEPT !.n = @ \o [i \in DOMAIN v |-> Notification(what, id, lod, v[i])],
                       !.lm = MapErase(@, <<id, lod>>)]
    ELSE r

\* notifyMeshLoaded: vobj->notifyMeshLoaded() for every object of the entry.
notifyMeshLoaded(r, mesh) == notifyMesh(r, "loaded", mesh.mId, mesh.mLOD, Objects)

\* notifyMeshUnavailable: vobj->setVolume for the objects of the entry whose own
\* volume has the detail of the unavailable LOD and the same parameters (match).
notifyMeshUnavailable(r, req, match) ==
    notifyMesh(r, "unavailable", req.mId, req.mLOD, match)

\* LLMeshRepository::notifySkinInfoReceived / notifySkinInfoUnavailable
notifySkin(r, what, id) ==
    IF id \in DOMAIN r.ls
    THEN LET v == r.ls[id]
         IN  [r EXCEPT !.n = @ \o [i \in DOMAIN v |-> Notification(what, id, -1, v[i])],
                       !.ls = MapErase(@, id)]
    ELSE r
notifySkinInfoReceived(r, id) == notifySkin([r EXCEPT !.sm = @ \cup {id}], "skin", id)
notifySkinInfoUnavailable(r, id) == notifySkin(r, "skinUnavailable", id)

\* LLModel::Decomposition as far as the registry looks at it: whether it holds
\* hulls and whether it holds a physics shape mesh.
Decomposition(id, hull, shape) ==
    [mMeshID |-> id, mHull |-> hull, mPhysicsShapeMesh |-> shape]

\* LLMeshRepository::notifyDecompositionReceived on r = [dm, ld]
\* (mDecompositionMap, mLoadingDecompositions): insert or merge, erase from the
\* loading set.
notifyDecompositionReceived(r, decomp) ==
    LET id == decomp.mMeshID
        merged == IF id \in DOMAIN r.dm
                  THEN Decomposition(id, r.dm[id].mHull \/ decomp.mHull,
                           r.dm[id].mPhysicsShapeMesh \/ decomp.mPhysicsShapeMesh)
                  ELSE decomp
    IN  [dm |-> MapPut(r.dm, id, merged), ld |-> r.ld \ {id}]

RECURSIVE DeliverDecompositions(_, _)
DeliverDecompositions(r, queue) ==
    IF queue = <<>> THEN r
    ELSE DeliverDecompositions(notifyDecompositionReceived(r, Head(queue)), Tail(queue))

\* A delivery that walks the swapped-out queue from its last element to its
\* first: the variant the delivery order has to tell apart.
RECURSIVE DeliverBackwards(_, _, _, _, _)
DeliverBackwards(r, what, queue, i, match) ==
    IF i > Len(queue) THEN r
    ELSE LET k == Len(queue) + 1 - i
             r2 == CASE what = "loaded" -> notifyMeshLoaded(r, queue[k])
                     [] what = "unavailable" -> notifyMeshUnavailable(r, queue[k], match)
                     [] what = "skin" -> notifySkinInfoReceived(r, queue[k])
                     [] OTHER -> notifySkinInfoUnavailable(r, queue[k])
         IN  DeliverBackwards(r2, what, queue, i + 1, match)

\* LLMeshRepoThread::notifyLoadedMeshes: each swapped-out queue is walked in order.
RECURSIVE Deliver(_, _, _, _, _)
Deliver(r, what, queue, i, match) ==
    IF i > Len(queue) THEN r
    ELSE LET r2 == CASE what = "loaded" -> notifyMeshLoaded(r, queue[i])
                     [] what = "unavailable" -> notifyMeshUnavailable(r, queue[i], match)
                     [] what = "skin" -> notifySkinInfoReceived(r, queue[i])
                     [] OTHER -> notifySkinInfoUnavailable(r, queue[i])
         IN  Deliver(r2, what, queue, i + 1, match)

\* active_count of LLMeshRepository::notifyLoadedMeshes
ActiveCount ==
    sActiveHeaderRequests + sActiveLODRequests + sActiveSkinRequests
    + Len(mLODReqQ) + Len(mHeaderReqQ) + Len(mSkinInfoQ)

\* push_count of LLMeshRepository::notifyLoadedMeshes, and the number of
\* requests its dispatch loop hands over.
PushCount(mark) == Max(mark - ActiveCount, 0)
Dispatched(mark) == Min(Len(mPendingRequests), PushCount(mark))

\* A dispatch loop that walks mPendingRequests from its last request to its
\* first: the variant the dispatch order has to tell apart.
DispatchOrdersBackwards(mark) ==
    {[i \in DOMAIN mPendingRequests |-> Len(mPendingRequests) + 1 - i]}

\* The orders in which mPendingRequests may stand when the dispatch loop starts:
\* sorted when there are more requests than push_count, as they are otherwise.
DispatchOrders(mark) ==
    IF ActiveCount < mark /\ Len(mPendingRequests) > PushCount(mark)
    THEN PartialSorts(mPendingRequests, PushCount(mark))
    ELSE {[i \in DOMAIN mPendingRequests |-> i]}

\* The sets of objects, among objs, whose own volume may be the one an
\* unavailable completion is about; the call looks at the objects' volumes only
\* when mUnavailableQ holds a completion.
Matches(objs) == IF mUnavailableQ = <<>> THEN {{}} ELSE SUBSET objs

\* LLMeshRepository::notifyLoadedMeshes once the four locks are held: feeds
\* pending requests to the worker up to the mark and delivers the completions;
\* match is the set of objects whose own volume is the one an unavailable
\* completion is about.
notifyLoadedMeshesLocked(mark, sel, match) ==
    LET n == Dispatched(mark)
        q == Dispatch(Queues, mPendingRequests, SubSeq(sel, 1, n), 1)
        r0 == [lm |-> mLoadingMeshes, ls |-> mLoadingSkins, sm |-> mSkinMap, n |-> <<>>]
        r1 == Deliver(r0, "loaded", mLoadedQ, 1, match)
        r2 == Deliver(r1, "unavailable", mUnavailableQ, 1, match)
        r3 == Deliver(r2, "skin", mSkinInfoQ, 1, match)
        r4 == Deliver(r3, "skinUnavailable", mSkinUnavailableQ, 1, match)
        d == DeliverDecompositions([dm |-> mDecompositionMap, ld |-> mLoadingDecompositions],
                                   mDecompositionQ)
    IN  /\ sRequestHighWater' = mark
        /\ notified' = r4.n
        /\ mPendingRequests' = Remaining(mPendingRequests, sel, n)
        /\ mHeaderReqQ' = q.h
        /\ mLODReqQ' = q.l
        /\ mSkinRequests' = q.s
        /\ mPendingLOD' = q.p
        /\ mLoadingMeshes' = r4.lm
        /\ mLoadingSkins' = r4.ls
        /\ mSkinMap' = r4.sm
        /\ mLoadedQ' = <<>>
        /\ mUnavailableQ' = <<>>
        /\ mSkinInfoQ' = <<>>
        /\ mSkinUnavailableQ' = <<>>
        /\ mDecompositionRequests' =
               loadMeshDecomposition(mDecompositionRequests, mPendingDecompositionRequests)
        /\ mPendingDecompositionRequests' = <<>>
        /\ mPhysicsShapeRequests' =
               loadMeshPhysicsShape(mPhysicsShapeRequests, mPendingPhysicsShapeRequests)
        /\ mPendingPhysicsShapeRequests' = <<>>
        /\ mDecompositionMap' = d.dm
        /\ mLoadingDecompositions' = d.ld
        /\ mDecompositionQ' = <<>>
        /\ UNCHANGED <<asset, exitVars, mUploads,
                       lastResponse, calls, refusals, mMeshHeader, mHttpRequestSet,
                       runPc, incomplete, poolTasks, cache, lodLoaded,
                       mLoadingPhysicsShapes>>

\* A notifyLoadedMeshes that does not try mMutex: the variant the lock order
\* has to tell apart.
TryLockedButWorker == Mutexes \ {"mMutex"}

\* The mutexes the LLMutexTrylock objects of notifyLoadedMeshes take, and
\* whether the main thread gets all of them.
TryLocked == Mutexes
TryLocksSucceed == \A m \in TryLocked : MayLock("main", m)

\* A held-off call that goes on to dispatch and deliver: the variant the
\* early return has to tell apart.
notifyLoadedMeshesHeldOffDispatching(mark, sel, match) ==
    /\ hold_offs < MaxHoldOffs
    /\ hold_offs' = hold_offs + 1
    /\ notifyLoadedMeshesLocked(mark, sel, match)
    /\ mInventoryQ' = 0
    /\ UNCHANGED <<mutex, lockOps>>

\* notifyLoadedMeshes when one of the four locks was not obtained: the
\* high-water mark was recomputed, hold_offs is counted up and the call returns.
notifyLoadedMeshesHeldOff(mark, sel, match) ==
    /\ hold_offs < MaxHoldOffs
    /\ hold_offs' = hold_offs + 1
    /\ sRequestHighWater' = mark
    /\ mInventoryQ' = 0
    /\ UNCHANGED <<asset, exitVars, mUploads,
                   mutex, lockOps, decompVars, lastResponse, notified, calls,
                   refusals, registryVars, queueVars, completionVars, mMeshHeader,
                   mPendingLOD, mHttpRequestSet, runPc, incomplete, poolTasks, cache,
                   lodLoaded>>

\* LLMeshRepository::notifyLoadedMeshes, called every frame on the main thread:
\* recomputes the high-water mark, empties mInventoryQ under mMeshMutex (an
\* LLMutexLock, which waits for the mutex), tries the four locks and, with all
\* of them, dispatches and delivers; the locks are released when the call ends.
notifyLoadedMeshes(mark, sel, match) ==
    /\ mInventoryQ > 0 => MayLock("main", "mMeshMutex")
    /\ IF TryLocksSucceed
       THEN /\ notifyLoadedMeshesLocked(mark, sel, match)
            /\ hold_offs' = 0
            /\ mInventoryQ' = 0
            /\ UNCHANGED <<mutex, lockOps>>
       ELSE notifyLoadedMeshesHeldOff(mark, sel, match)

\* LLMeshRepository::updateInventory, called by an upload thread when its
\* upload is done: pushes the result to mInventoryQ under mMeshMutex.
updateInventory ==
    /\ mInventoryQ < MaxUploads
    /\ mutex["mMeshMutex"].owner = "none"
    /\ mInventoryQ' = mInventoryQ + 1
    /\ UNCHANGED <<asset, exitVars, mUploads,
                   mutex, lockOps, hold_offs, decompVars, lastResponse, notified,
                   calls, refusals, registryVars, queueVars, completionVars, mMeshHeader,
                   mPendingLOD, mHttpRequestSet, sRequestHighWater, runPc, incomplete,
                   poolTasks, cache, lodLoaded>>

\* ------------------------------------------------------- headers and cache
\* LLMeshHeader::fromLLSD of the header the server holds for the asset
fromLLSD(a) ==
    [m404 |-> FALSE, mVersion |-> a.version, mHeaderSize |-> 0,
     mLodOffset |-> a.lod_offset, mLodSize |-> a.lod_size,
     mLodInCache |-> [l \in Lods |-> FALSE],
     mSkinOffset |-> a.skin_offset, mSkinSize |-> a.skin_size, mSkinInCache |-> FALSE,
     mPhysicsConvexOffset |-> a.physics_convex_offset,
     mPhysicsConvexSize |-> a.physics_convex_size, mPhysicsConvexInCache |-> FALSE,
     mPhysicsMeshOffset |-> a.physics_mesh_offset,
     mPhysicsMeshSize |-> a.physics_mesh_size, mPhysicsMeshInCache |-> FALSE]

\* LLMeshHeader::getFlags: the flags word of the preamble, one bit per sub-section
\* (skin, physics convex, physics mesh, LOD 0..3).
getFlags(header) ==
    (IF header.mSkinInCache THEN 1 ELSE 0)
    + (IF header.mPhysicsConvexInCache THEN 2 ELSE 0)
    + (IF header.mPhysicsMeshInCache THEN 4 ELSE 0)
    + (IF header.mLodInCache[0] THEN 8 ELSE 0) + (IF header.mLodInCache[1] THEN 16 ELSE 0)
    + (IF header.mLodInCache[2] THEN 32 ELSE 0) + (IF header.mLodInCache[3] THEN 64 ELSE 0)

\* LLMeshHeader::setFromFlags
setFromFlags(header, flags) ==
    [header EXCEPT !.mSkinInCache = (flags % 2) = 1,
                   !.mPhysicsConvexInCache = ((flags \div 2) % 2) = 1,
                   !.mPhysicsMeshInCache = ((flags \div 4) % 2) = 1,
                   !.mLodInCache = [l \in Lods |-> ((flags \div (8 * (2 ^ l))) % 2) = 1]]

\* LLMeshRepository::getActualMeshLOD(header, lod)
getActualMeshLOD(header, lod) ==
    IF header.m404 \/ header.mVersion > MAX_MESH_VERSION THEN -1
    ELSE IF header.mLodSize[lod] > 0 THEN lod
    ELSE IF \E i \in 0 .. (lod - 1) : header.mLodSize[i] > 0
    THEN CHOOSE i \in 0 .. (lod - 1) :
             header.mLodSize[i] > 0 /\ \A j \in (i + 1) .. (lod - 1) : header.mLodSize[j] = 0
    ELSE IF \E i \in (lod + 1) .. (NUM_LODS - 1) : header.mLodSize[i] > 0
    THEN CHOOSE i \in (lod + 1) .. (NUM_LODS - 1) :
             header.mLodSize[i] > 0 /\ \A j \in (lod + 1) .. (i - 1) : header.mLodSize[j] = 0
    ELSE -1

\* A cache file: its size, the preamble's header size and flags word, the length
\* of the asset prefix the header handler wrote after the preamble (the rest of
\* the reservation is zero-filled), the sub-sections written since and, of
\* these, the ones written from a body no parser accepts.
CacheFile(size, header_size, flags, prefix) ==
    [size |-> size, header_size |-> header_size, flags |-> flags, prefix |-> prefix,
     written |-> {}, corrupt |-> {}]

\* write_preamble(file, header_bytes, flags): the version word, the header size
\* and the flags word at the start of the file. The words are 32 bits wide; a
\* header size is below 2^31 and a flags word below 2^7, so both are stored
\* as they are.
write_preamble(file, header_bytes, flags) ==
    [file EXCEPT !.header_size = header_bytes, !.flags = flags]

\* What a read of the sub-section sec at asset offset off, length sz, returns:
\* the asset's bytes, zeros, asset bytes followed by zeros, or the bytes of a
\* body no parser accepts that a handler wrote there.
CacheContent(f, sec, off, sz) ==
    IF sec \in f.corrupt THEN "corrupt"
    ELSE IF sec \in f.written \/ off + sz <= f.prefix THEN "data"
    ELSE IF off < f.prefix THEN "partial"
    ELSE "zero"

\* Bytes handed to a parser: a response body holds the asset's bytes, a cache
\* read whatever the file holds there.
Content(src, id, sec, off, sz) ==
    IF src = "http" THEN "data" ELSE CacheContent(cache[id], sec, off, sz)

\* LLVolume::unpackVolumeFaces / LLUZipHelper::unzip_llsd succeed on the asset's bytes only.
Parses(content) == content = "data"

\* LLMeshRepoThread::headerReceived(mesh_params, data, data_size, flags) with the
\* bytes taken from src; the result holds the variables it changes.
headerReceived(id, data_size, src, flags) ==
    LET a == asset[id]
        h0 == fromLLSD(a)
        ok == h0.mVersion <= MAX_MESH_VERSION /\ getActualMeshLOD(h0, 0) >= 0
        header_size == IF ok THEN a.header_size ELSE 0
        h1 == IF data_size <= 0 \/ h0.mVersion > MAX_MESH_VERSION \/ ~ok
              THEN [h0 EXCEPT !.m404 = TRUE]
              ELSE [h0 EXCEPT !.mHeaderSize = a.header_size]
        header ==
            IF ~ok \/ data_size <= 0 THEN h1
            ELSE IF flags # 0 THEN setFromFlags(h1, flags)
            ELSE [h1 EXCEPT
                    !.mSkinInCache = h1.mSkinSize > 0
                        /\ header_size + h1.mSkinOffset + h1.mSkinSize < data_size,
                    !.mPhysicsConvexInCache = h1.mPhysicsConvexSize > 0
                        /\ header_size + h1.mPhysicsConvexOffset + h1.mPhysicsConvexSize
                               < data_size,
                    !.mPhysicsMeshInCache = h1.mPhysicsMeshSize > 0
                        /\ header_size + h1.mPhysicsMeshOffset + h1.mPhysicsMeshSize
                               < data_size,
                    !.mLodInCache = [l \in Lods |-> h1.mLodSize[l] > 0
                        /\ header_size + h1.mLodOffset[l] + h1.mLodSize[l] < data_size]]
        has_skin == ok /\ data_size > 0 /\ a.skin_offset >= 0 /\ a.skin_size > 0
        skin_off == header_size + a.skin_offset
        skin_parsed == has_skin /\ skin_off + a.skin_size < data_size
                       /\ Parses(Content(src, id, <<"skin">>, skin_off, a.skin_size))
        has_pending == id \in DOMAIN mPendingLOD
        wanted(l) == ok /\ data_size > 0 /\ has_pending
                     /\ mPendingLOD[id][l] > 0 /\ a.lod_size[l] > 0
        lod_parsed(l) == wanted(l)
                     /\ header_size + a.lod_offset[l] + a.lod_size[l] <= data_size
                     /\ Parses(Content(src, id, <<"lod", l>>,
                                       header_size + a.lod_offset[l], a.lod_size[l]))
        RECURSIVE Walk(_, _)
        Walk(l, parsed) ==
            IF l >= NUM_LODS THEN <<>>
            ELSE (IF wanted(l) /\ lod_parsed(l) = parsed
                  THEN <<LODRequest(id, l)>> ELSE <<>>) \o Walk(l + 1, parsed)
        loaded == Walk(0, TRUE)
    IN  [hdr |-> MapPut(mMeshHeader, id, header),
         ls |-> IF has_skin /\ id \notin DOMAIN mLoadingSkins
                THEN MapPut(mLoadingSkins, id, <<>>) ELSE mLoadingSkins,
         siq |-> IF skin_parsed THEN Append(mSkinInfoQ, id) ELSE mSkinInfoQ,
         sreq |-> IF has_skin /\ ~skin_parsed
                  THEN Append(mSkinRequests, UUIDBasedRequest(id)) ELSE mSkinRequests,
         pl |-> MapErase(mPendingLOD, id),
         ldq |-> mLoadedQ \o [i \in DOMAIN loaded |->
                                 [mId |-> id, mLOD |-> loaded[i].mLOD]],
         lq |-> mLODReqQ \o Walk(0, FALSE),
         ll |-> lodLoaded \cup {<<id, loaded[i].mLOD>> : i \in DOMAIN loaded}]

\* ------------------------------------------------------------ repo worker
\* A canRetry that grants one retry more: the variant the retry budget has to
\* tell apart.
canRetryOnceMore(req) == req.mRetries <= DOWNLOAD_RETRY_LIMIT

\* RequestStats::canRetry, updateTime; isDelayed is the started timer not yet expired.
canRetry(req) == req.mRetries < DOWNLOAD_RETRY_LIMIT
updateTime(req) ==
    [req EXCEPT !.mRetries = @ + 1, !.started = TRUE,
                !.expiry = DOWNLOAD_RETRY_DELAY * (2 ^ req.mRetries)]
isDelayed(req, expired) == req.started /\ ~expired

\* The handler objects: LLMeshHeaderHandler, LLMeshLODHandler, LLMeshSkinInfoHandler
Handler(kind, id, lod, offset, requested_bytes) ==
    [kind |-> kind, mId |-> id, mLOD |-> lod, mOffset |-> offset,
     mRequestedBytes |-> requested_bytes]
HttpSetSize == BagCardinality(mHttpRequestSet)
BagAdd(bag, x) == bag (+) SetToBag({x})
BagRemove(bag, x) == bag (-) SetToBag({x})

\* What the HTTP layer may answer to getByteRange: a valid handle, an invalid
\* handle, or nothing to ask because no capability URL is known.
IssueResults == {"issued", "refused", "nourl"}
MayIssue(issue) == issue = "refused" => refusals < MaxRefusals

\* mHttpRequest->update(0L) has dispatched the ready handlers; the queues are
\* next. The worker gets here only if LLApp::isExiting() was false at the top
\* of the loop and after mSignal->wait().
RunUpdateDone ==
    /\ runPc = "update"
    /\ ~isExiting
    /\ runPc' = "skin"
    /\ UNCHANGED <<asset, lockVars, exitVars, mUploads, decompVars,
                   lastResponse, notified, calls, refusals, registryVars, queueVars,
                   completionVars,
                   mMeshHeader, mPendingLOD, mHttpRequestSet, sRequestHighWater,
                   incomplete, poolTasks, cache, lodLoaded>>

\* What a fetch did: the way it went and the byte range it was after.
Fetched(way, offset, size) == [way |-> way, offset |-> offset, size |-> size]

\* A loop test that lets one more request through once the mark is reached: the
\* variant the bound on the handler set has to tell apart.
BelowHighWaterInclusive == HttpSetSize <= sRequestHighWater

\* The loops of run() go on while the handler set is below the high-water mark.
BelowHighWater == HttpSetSize < sRequestHighWater

\* A fetchMeshLOD that hands the cached bytes to the parser without looking at
\* the first kilobyte: the variant the zero test has to tell apart.
fetchMeshLODParsingZeros(id, lod, issue) ==
    LET header == mMeshHeader[id]
        offset == header.mHeaderSize + header.mLodOffset[lod]
        size == header.mLodSize[lod]
        disk_ofset == offset + CACHE_PREAMBLE_SIZE
    IN  IF header.mHeaderSize <= 0 THEN Fetched("nothing", 0, 0)
        ELSE IF ~(header.mVersion <= MAX_MESH_VERSION /\ offset >= 0 /\ size > 0)
        THEN Fetched("unavailable", offset, size)
        ELSE IF /\ header.mLodInCache[lod]
                /\ id \in DOMAIN cache
                /\ cache[id].size >= disk_ofset + size
        THEN Fetched("cache", offset, size)
        ELSE IF issue = "nourl" THEN Fetched("unavailable", offset, size)
        ELSE Fetched(issue, offset, size)

\* fetchMeshLOD(mesh_params, lod) once the header was found in mMeshHeader
fetchMeshLODWithHeader(id, lod, issue) ==
    LET header == mMeshHeader[id]
        offset == header.mHeaderSize + header.mLodOffset[lod]
        size == header.mLodSize[lod]
        disk_ofset == offset + CACHE_PREAMBLE_SIZE
    IN  IF header.mHeaderSize <= 0 THEN Fetched("nothing", 0, 0)
        ELSE IF ~(header.mVersion <= MAX_MESH_VERSION /\ offset >= 0 /\ size > 0)
        THEN Fetched("unavailable", offset, size)
        ELSE IF /\ header.mLodInCache[lod]
                /\ id \in DOMAIN cache
                /\ cache[id].size >= disk_ofset + size
                /\ CacheContent(cache[id], <<"lod", lod>>, offset, size) # "zero"
        THEN Fetched("cache", offset, size)
        ELSE IF issue = "nourl" THEN Fetched("unavailable", offset, size)
        ELSE Fetched(issue, offset, size)

\* fetchMeshLOD(mesh_params, lod): which way the fetch goes
fetchMeshLOD(id, lod, issue) ==
    IF ~hasHeader(id) THEN Fetched("noheader", 0, 0)
    ELSE fetchMeshLODWithHeader(id, lod, issue)

\* One turn of the LOD loop of run()
RunLODStep(expired, issue) ==
    /\ runPc = "lod"
    /\ mLODReqQ # <<>>
    /\ BelowHighWater
    /\ MayIssue(issue)
    /\ LET req == Head(mLODReqQ)
           rest == Tail(mLODReqQ)
           f == fetchMeshLOD(req.mId, req.mLOD, issue)
           way == IF isDelayed(req, expired) THEN "delayed" ELSE f.way
           offset == f.offset
           size == f.size
           failed == way \in {"noheader", "refused"}
       IN  /\ mLODReqQ' = IF way = "refused"
                          THEN DestroyedLODHandler(rest, req.mId, req.mLOD) ELSE rest
           /\ incomplete' = IF way = "delayed" THEN <<req>> \o incomplete
                            ELSE IF failed /\ canRetry(req)
                            THEN <<updateTime(req)>> \o incomplete
                            ELSE incomplete
           /\ mUnavailableQ' = IF way = "unavailable" \/ (failed /\ ~canRetry(req))
                               THEN Append(mUnavailableQ, [mId |-> req.mId, mLOD |-> req.mLOD])
                               ELSE mUnavailableQ
           /\ poolTasks' = IF way = "cache"
                           THEN BagAdd(poolTasks,
                                   [kind |-> "lodCache", mId |-> req.mId, mLOD |-> req.mLOD,
                                    mOffset |-> offset, mRequestedBytes |-> size,
                                    content |-> CacheContent(cache[req.mId],
                                                    <<"lod", req.mLOD>>, offset, size),
                                    stage |-> "posted"])
                           ELSE poolTasks
           /\ mHttpRequestSet' = IF way = "issued"
                                 THEN BagAdd(mHttpRequestSet,
                                         Handler("lod", req.mId, req.mLOD, offset, size))
                                 ELSE mHttpRequestSet
           /\ refusals' = IF way = "refused" THEN refusals + 1 ELSE refusals
    /\ UNCHANGED <<asset, lockVars, exitVars, mUploads,
                   decompVars, lastResponse, notified, calls, registryVars, mHeaderReqQ,
                   mSkinRequests, mLoadedQ,
                   mSkinInfoQ, mSkinUnavailableQ, mMeshHeader, mPendingLOD,
                   sRequestHighWater, runPc, cache, lodLoaded>>

\* The LOD loop of run() ends: the incomplete requests go back to mLODReqQ.
RunLODDone ==
    /\ runPc = "lod"
    /\ ~(mLODReqQ # <<>> /\ BelowHighWater)
    /\ mLODReqQ' = mLODReqQ \o incomplete
    /\ incomplete' = <<>>
    /\ runPc' = "header"
    /\ UNCHANGED <<asset, lockVars, exitVars, mUploads, decompVars,
                   lastResponse, notified, calls, refusals, registryVars, mHeaderReqQ,
                   mSkinRequests,
                   completionVars, mMeshHeader, mPendingLOD, mHttpRequestSet,
                   sRequestHighWater, poolTasks, cache, lodLoaded>>

\* fetchMeshHeader(mesh_params): which way the fetch goes
fetchMeshHeader(id, issue) ==
    IF id \in DOMAIN cache /\ cache[id].size > 0 THEN "cache"
    ELSE IF issue = "nourl" THEN "nothing"
    ELSE issue

\* One turn of the header loop of run()
RunHeaderStep(expired, issue) ==
    /\ runPc = "header"
    /\ mHeaderReqQ # <<>>
    /\ BelowHighWater
    /\ MayIssue(issue)
    /\ LET req == Head(mHeaderReqQ)
           rest == Tail(mHeaderReqQ)
           way == IF isDelayed(req, expired) THEN "delayed"
                  ELSE fetchMeshHeader(req.mId, issue)
           bytes == Min(cache[req.mId].size, MESH_HEADER_SIZE)
           hr == IF way = "cache"
                 THEN headerReceived(req.mId, bytes - CACHE_PREAMBLE_SIZE, "cache",
                                     cache[req.mId].flags)
                 ELSE [hdr |-> mMeshHeader, ls |-> mLoadingSkins, siq |-> mSkinInfoQ,
                       sreq |-> mSkinRequests, pl |-> mPendingLOD, ldq |-> mLoadedQ,
                       lq |-> mLODReqQ, ll |-> lodLoaded]
       IN  /\ mHeaderReqQ' = IF way = "refused"
                             THEN DestroyedHeaderHandler(rest, req.mId) ELSE rest
           /\ incomplete' = IF way = "delayed" THEN <<req>> \o incomplete
                            ELSE IF way = "refused" /\ canRetry(req)
                            THEN <<updateTime(req)>> \o incomplete
                            ELSE incomplete
           /\ mHttpRequestSet' = IF way = "issued"
                                 THEN BagAdd(mHttpRequestSet,
                                         Handler("header", req.mId, -1, 0, MESH_HEADER_SIZE))
                                 ELSE mHttpRequestSet
           /\ refusals' = IF way = "refused" THEN refusals + 1 ELSE refusals
           /\ mMeshHeader' = hr.hdr
           /\ mLoadingSkins' = hr.ls
           /\ mSkinInfoQ' = hr.siq
           /\ mSkinRequests' = hr.sreq
           /\ mPendingLOD' = hr.pl
           /\ mLoadedQ' = hr.ldq
           /\ mLODReqQ' = hr.lq
           /\ lodLoaded' = hr.ll
    /\ UNCHANGED <<asset, lockVars, exitVars, mUploads, decompVars,
                   lastResponse, notified, calls, mLoadingMeshes, mPendingRequests,
                   mSkinMap, mUnavailableQ,
                   mSkinUnavailableQ, sRequestHighWater, runPc, poolTasks, cache>>

\* The header loop of run() ends. The last two request lists are looked at if
\* the handler set is below the mark and one of them has a request; otherwise
\* the pass is over, the worker waits in mSignal->wait() and, once woken, is
\* back at mHttpRequest->update.
RunHeaderDone ==
    /\ runPc = "header"
    /\ ~(mHeaderReqQ # <<>> /\ BelowHighWater)
    /\ mHeaderReqQ' = mHeaderReqQ \o incomplete
    /\ incomplete' = <<>>
    /\ runPc' = IF BelowHighWater
                    /\ (mDecompositionRequests # {} \/ mPhysicsShapeRequests # {})
                 THEN "decomposition" ELSE "update"
    /\ UNCHANGED <<asset, lockVars, exitVars, mUploads, decompVars,
                   lastResponse, notified, calls, refusals, registryVars, mLODReqQ,
                   mSkinRequests,
                   completionVars, mMeshHeader, mPendingLOD, mHttpRequestSet,
                   sRequestHighWater, poolTasks, cache, lodLoaded>>

\* fetchMeshSkinInfo(mesh_id) once the header was found in mMeshHeader
fetchMeshSkinInfoWithHeader(id, issue) ==
    LET header == mMeshHeader[id]
        offset == header.mHeaderSize + header.mSkinOffset
        size == header.mSkinSize
        disk_ofset == offset + CACHE_PREAMBLE_SIZE
    IN  IF header.mHeaderSize <= 0 THEN Fetched("nothing", 0, 0)
        ELSE IF ~(header.mVersion <= MAX_MESH_VERSION /\ offset >= 0 /\ size > 0)
        THEN Fetched("unavailable", offset, size)
        ELSE IF /\ header.mSkinInCache
                /\ id \in DOMAIN cache
                /\ cache[id].size >= disk_ofset + size
                /\ CacheContent(cache[id], <<"skin">>, offset, size) # "zero"
        THEN Fetched("cache", offset, size)
        ELSE IF issue = "nourl" THEN Fetched("unavailable", offset, size)
        ELSE Fetched(issue, offset, size)

\* A fetchMeshSkinInfo that goes to the network without looking for the header
\* first: the variant the header-before-body property has to tell apart.
fetchMeshSkinInfoUnchecked(id, issue) ==
    IF ~hasHeader(id)
    THEN Fetched(IF issue = "nourl" THEN "unavailable" ELSE issue, 0, 0)
    ELSE fetchMeshSkinInfoWithHeader(id, issue)

\* fetchMeshSkinInfo(mesh_id): which way the fetch goes
fetchMeshSkinInfo(id, issue) ==
    IF ~hasHeader(id) THEN Fetched("noheader", 0, 0)
    ELSE fetchMeshSkinInfoWithHeader(id, issue)

\* One turn of the skin loop of run()
RunSkinStep(expired, issue) ==
    /\ runPc = "skin"
    /\ mSkinRequests # <<>>
    /\ BelowHighWater
    /\ MayIssue(issue)
    /\ LET req == Head(mSkinRequests)
           rest == Tail(mSkinRequests)
           f == fetchMeshSkinInfo(req.mId, issue)
           way == IF isDelayed(req, expired) THEN "delayed" ELSE f.way
           offset == f.offset
           size == f.size
           failed == way \in {"noheader", "refused"}
       IN  /\ mSkinRequests' = rest
           /\ incomplete' = IF way = "delayed" THEN Append(incomplete, req)
                            ELSE IF failed /\ canRetry(req)
                            THEN Append(incomplete, updateTime(req))
                            ELSE incomplete
           /\ mSkinUnavailableQ' = IF way = "unavailable" \/ (failed /\ ~canRetry(req))
                                   THEN Append(mSkinUnavailableQ, req.mId)
                                   ELSE mSkinUnavailableQ
           /\ poolTasks' = IF way = "cache"
                           THEN BagAdd(poolTasks,
                                   [kind |-> "skinCache", mId |-> req.mId, mLOD |-> -1,
                                    mOffset |-> offset, mRequestedBytes |-> size,
                                    content |-> CacheContent(cache[req.mId], <<"skin">>,
                                                             offset, size),
                                    stage |-> "posted"])
                           ELSE poolTasks
           /\ mHttpRequestSet' = IF way = "issued"
                                 THEN BagAdd(mHttpRequestSet,
                                         Handler("skin", req.mId, -1, offset, size))
                                 ELSE mHttpRequestSet
           /\ refusals' = IF way = "refused" THEN refusals + 1 ELSE refusals
    /\ UNCHANGED <<asset, lockVars, exitVars, mUploads, decompVars,
                   lastResponse, notified, calls, registryVars, mHeaderReqQ, mLODReqQ,
                   mLoadedQ,
                   mUnavailableQ, mSkinInfoQ, mMeshHeader, mPendingLOD,
                   sRequestHighWater, runPc, cache, lodLoaded>>

\* The skin loop of run() ends: the incomplete requests go back to mSkinRequests.
RunSkinDone ==
    /\ runPc = "skin"
    /\ ~(mSkinRequests # <<>> /\ BelowHighWater)
    /\ mSkinRequests' = mSkinRequests \o incomplete
    /\ incomplete' = <<>>
    /\ runPc' = "lod"
    /\ UNCHANGED <<asset, lockVars, exitVars, mUploads, decompVars,
                   lastResponse, notified, calls, refusals, registryVars, mHeaderReqQ,
                   mLODReqQ,
                   completionVars, mMeshHeader, mPendingLOD, mHttpRequestSet,
                   sRequestHighWater, poolTasks, cache, lodLoaded>>

\* LLMeshRepoThread::decompositionReceived / physicsShapeReceived on bytes with
\* the given content ("null" for physicsShapeReceived(mesh_id, NULL, 0)): the
\* decomposition pushed to mDecompositionQ, if any.
decompositionReceived(id, content) ==
    IF Parses(content) THEN <<Decomposition(id, TRUE, FALSE)>> ELSE <<>>
physicsShapeReceived(id, content) == <<Decomposition(id, FALSE, Parses(content))>>

\* fetchMeshDecomposition(mesh_id): which way the fetch goes
fetchMeshDecomposition(id, issue) ==
    IF ~hasHeader(id) THEN Fetched("noheader", 0, 0)
    ELSE LET header == mMeshHeader[id]
             offset == header.mHeaderSize + header.mPhysicsConvexOffset
             size == header.mPhysicsConvexSize
             disk_ofset == offset + CACHE_PREAMBLE_SIZE
         IN  IF header.mHeaderSize <= 0 THEN Fetched("nothing", 0, 0)
             ELSE IF ~(header.mVersion <= MAX_MESH_VERSION /\ offset >= 0 /\ size > 0)
             THEN Fetched("nothing", offset, size)
             ELSE IF /\ header.mPhysicsConvexInCache
                     /\ id \in DOMAIN cache
                     /\ cache[id].size >= disk_ofset + size
                     /\ Parses(CacheContent(cache[id], <<"decomposition">>, offset, size))
             THEN Fetched("cache", offset, size)
             ELSE IF issue = "nourl" THEN Fetched("nothing", offset, size)
             ELSE Fetched(issue, offset, size)

\* A fetchMeshPhysicsShape that asks the server for the shape without looking
\* at the size the header declares: the variant the null result has to tell
\* apart.
fetchMeshPhysicsShapeAnySize(id, issue) ==
    IF ~hasHeader(id) THEN Fetched("noheader", 0, 0)
    ELSE LET header == mMeshHeader[id]
             offset == header.mHeaderSize + header.mPhysicsMeshOffset
         IN  IF header.mHeaderSize <= 0 THEN Fetched("nothing", 0, 0)
             ELSE IF issue = "nourl" THEN Fetched("nothing", offset, header.mPhysicsMeshSize)
             ELSE Fetched(issue, offset, header.mPhysicsMeshSize)

\* fetchMeshPhysicsShape(mesh_id): which way the fetch goes
fetchMeshPhysicsShape(id, issue) ==
    IF ~hasHeader(id) THEN Fetched("noheader", 0, 0)
    ELSE LET header == mMeshHeader[id]
             offset == header.mHeaderSize + header.mPhysicsMeshOffset
             size == header.mPhysicsMeshSize
             disk_ofset == offset + CACHE_PREAMBLE_SIZE
         IN  IF header.mHeaderSize <= 0 THEN Fetched("nothing", 0, 0)
             ELSE IF ~(header.mVersion <= MAX_MESH_VERSION /\ offset >= 0 /\ size > 0)
             THEN Fetched("null", offset, size)
             ELSE IF /\ header.mPhysicsMeshInCache
                     /\ id \in DOMAIN cache
                     /\ cache[id].size >= disk_ofset + size
                     /\ CacheContent(cache[id], <<"physics">>, offset, size) # "zero"
             THEN Fetched("cache", offset, size)
             ELSE IF issue = "nourl" THEN Fetched("nothing", offset, size)
             ELSE Fetched(issue, offset, size)

\* One turn of the decomposition loop of run(); begin() of the set is its only
\* element, the model having one mesh id.
RunDecompositionStep(expired, issue) ==
    /\ runPc = "decomposition"
    /\ mDecompositionRequests # {}
    /\ BelowHighWater
    /\ MayIssue(issue)
    /\ LET req == CHOOSE r \in mDecompositionRequests : TRUE
           f == fetchMeshDecomposition(req.mId, issue)
           way == IF isDelayed(req, expired) THEN "delayed" ELSE f.way
           failed == way \in {"noheader", "refused"}
       IN  /\ mDecompositionRequests' = mDecompositionRequests \ {req}
           /\ incomplete' = IF way = "delayed" THEN Append(incomplete, req)
                            ELSE IF failed /\ canRetry(req)
                            THEN Append(incomplete, updateTime(req))
                            ELSE incomplete
           /\ mDecompositionQ' =
                  IF way = "cache"
                  THEN mDecompositionQ \o decompositionReceived(req.mId, "data")
                  ELSE mDecompositionQ
           /\ mHttpRequestSet' = IF way = "issued"
                                 THEN BagAdd(mHttpRequestSet,
                                         Handler("decomposition", req.mId, -1, f.offset, f.size))
                                 ELSE mHttpRequestSet
           /\ refusals' = IF way = "refused" THEN refusals + 1 ELSE refusals
    /\ UNCHANGED <<asset, lockVars, exitVars, mUploads,
                   lastResponse, notified, calls, registryVars, queueVars,
                   completionVars, mMeshHeader, mPendingLOD, sRequestHighWater, runPc,
                   poolTasks, cache, lodLoaded, mLoadingDecompositions,
                   mLoadingPhysicsShapes, mPendingDecompositionRequests,
                   mPendingPhysicsShapeRequests, mDecompositionMap, mPhysicsShapeRequests>>

\* The decomposition loop of run() ends: the incomplete requests go back to the set.
RunDecompositionDone ==
    /\ runPc = "decomposition"
    /\ ~(mDecompositionRequests # {} /\ BelowHighWater)
    /\ mDecompositionRequests' = SetInsertAll(mDecompositionRequests, incomplete)
    /\ incomplete' = <<>>
    /\ runPc' = "physics"
    /\ UNCHANGED <<asset, lockVars, exitVars, mUploads,
                   lastResponse, notified, calls, refusals, registryVars, queueVars,
                   completionVars, mMeshHeader, mPendingLOD, mHttpRequestSet,
                   sRequestHighWater, poolTasks, cache, lodLoaded, mLoadingDecompositions,
                   mLoadingPhysicsShapes, mPendingDecompositionRequests,
                   mPendingPhysicsShapeRequests, mDecompositionMap, mPhysicsShapeRequests,
                   mDecompositionQ>>

\* One turn of the physics shape loop of run()
RunPhysicsShapeStep(expired, issue) ==
    /\ runPc = "physics"
    /\ mPhysicsShapeRequests # {}
    /\ BelowHighWater
    /\ MayIssue(issue)
    /\ LET req == CHOOSE r \in mPhysicsShapeRequests : TRUE
           f == fetchMeshPhysicsShape(req.mId, issue)
           way == IF isDelayed(req, expired) THEN "delayed" ELSE f.way
           failed == way \in {"noheader", "refused"}
       IN  /\ mPhysicsShapeRequests' = mPhysicsShapeRequests \ {req}
           /\ incomplete' = IF way = "delayed" THEN Append(incomplete, req)
                            ELSE IF failed /\ canRetry(req)
                            THEN Append(incomplete, updateTime(req))
                            ELSE incomplete
           /\ mDecompositionQ' =
                  IF way = "null" THEN mDecompositionQ \o physicsShapeReceived(req.mId, "null")
                  ELSE IF way = "cache"
                  THEN mDecompositionQ \o physicsShapeReceived(req.mId,
                           CacheContent(cache[req.mId], <<"physics">>, f.offset, f.size))
                  ELSE mDecompositionQ
           /\ mHttpRequestSet' = IF way = "issued"
                                 THEN BagAdd(mHttpRequestSet,
                                         Handler("physics", req.mId, -1, f.offset, f.size))
                                 ELSE mHttpRequestSet
           /\ refusals' = IF way = "refused" THEN refusals + 1 ELSE refusals
    /\ UNCHANGED <<asset, lockVars, exitVars, mUploads,
                   lastResponse, notified, calls, registryVars, queueVars,
                   completionVars, mMeshHeader, mPendingLOD, sRequestHighWater, runPc,
                   poolTasks, cache, lodLoaded, mLoadingDecompositions,
                   mLoadingPhysicsShapes, mPendingDecompositionRequests,
                   mPendingPhysicsShapeRequests, mDecompositionMap, mDecompositionRequests>>

\* The physics shape loop of run() ends; the pass is over.
RunPhysicsShapeDone ==
    /\ runPc = "physics"
    /\ ~(mPhysicsShapeRequests # {} /\ BelowHighWater)
    /\ mPhysicsShapeRequests' = SetInsertAll(mPhysicsShapeRequests, incomplete)
    /\ incomplete' = <<>>
    /\ runPc' = "update"
    /\ UNCHANGED <<asset, lockVars, exitVars, mUploads,
                   lastResponse, notified, calls, refusals, registryVars, queueVars,
                   completionVars, mMeshHeader, mPendingLOD, mHttpRequestSet,
                   sRequestHighWater, poolTasks, cache, lodLoaded, mLoadingDecompositions,
                   mLoadingPhysicsShapes, mPendingDecompositionRequests,
                   mPendingPhysicsShapeRequests, mDecompositionMap, mDecompositionRequests,
                   mDecompositionQ>>

\* --------------------------------------------------------- HTTP completions
\* What the transport hands to onCompleted: a body that holds the first byte
\* asked for, a failure status, or a body whose range misses the request.
Responses == {"ok", "fail", "badrange"}
\* A body that parses, a failure status, or a body in the requested range that
\* no parser accepts.
BodyResponses == {"ok", "fail", "corrupt"}
\* onCompleted calls processFailure for these and processData for the others.
Failed(resp) == resp \in {"fail", "badrange"}
\* The bytes processData is given.
Body(resp) == IF resp = "ok" THEN "data" ELSE "corrupt"

\* The unavailable entries LLMeshHeaderHandler pushes: one for every LOD.
RECURSIVE AllLodsUnavailable(_, _)
AllLodsUnavailable(id, i) ==
    IF i >= NUM_LODS THEN <<>>
    ELSE <<[mId |-> id, mLOD |-> i]>> \o AllLodsUnavailable(id, i + 1)

\* Bytes LLMeshHeaderHandler::processData reserves in the cache file.
ReservedBytes(header) ==
    LET ends == {header.mLodOffset[l] + header.mLodSize[l] : l \in Lods}
                \cup {header.mSkinOffset + header.mSkinSize,
                      header.mPhysicsConvexOffset + header.mPhysicsConvexSize, 0}
        lod_bytes == CHOOSE m \in ends : \A x \in ends : x <= m
    IN  lod_bytes + header.mHeaderSize + CACHE_PREAMBLE_SIZE

\* LLMeshHandlerBase::onCompleted for a header handler:
\* LLMeshHeaderHandler::processFailure or processData, then the handler leaves the set.
\* A body that does not parse makes headerReceived return before it stores
\* anything, and processData then does what processFailure does.
onCompletedHeader(h, resp) ==
    /\ runPc = "update"
    /\ h \in BagToSet(mHttpRequestSet)
    /\ h.kind = "header"
    /\ mHttpRequestSet' = BagRemove(mHttpRequestSet, h)
    /\ lastResponse' = resp
    /\ IF resp # "ok"
       THEN /\ mUnavailableQ' = mUnavailableQ \o AllLodsUnavailable(h.mId, 0)
            /\ UNCHANGED <<mMeshHeader, mLoadingSkins, mSkinInfoQ, mSkinRequests,
                           mPendingLOD, mLoadedQ, mLODReqQ, lodLoaded, cache>>
       ELSE LET data_size == Min(h.mRequestedBytes, asset[h.mId].total)
                hr == headerReceived(h.mId, data_size, "http", 0)
                header == hr.hdr[h.mId]
                cacheable == header.mHeaderSize > 0 /\ ~header.m404
                             /\ header.mVersion <= MAX_MESH_VERSION
                bytes == ReservedBytes(header)
            IN  /\ mMeshHeader' = hr.hdr
                /\ mLoadingSkins' = hr.ls
                /\ mSkinInfoQ' = hr.siq
                /\ mSkinRequests' = hr.sreq
                /\ mPendingLOD' = hr.pl
                /\ mLoadedQ' = hr.ldq
                /\ mLODReqQ' = hr.lq
                /\ lodLoaded' = hr.ll
                /\ cache' = IF cacheable
                            THEN MapPut(cache, h.mId,
                                     CacheFile(bytes, header.mHeaderSize, getFlags(header),
                                               Min(data_size, bytes) ))
                            ELSE cache
                /\ mUnavailableQ' = IF cacheable THEN mUnavailableQ
                                    ELSE mUnavailableQ \o AllLodsUnavailable(h.mId, 0)
    /\ UNCHANGED <<asset, lockVars, exitVars, mUploads, decompVars,
                   notified, calls, refusals, mLoadingMeshes, mPendingRequests, mSkinMap,
                   mHeaderReqQ, mSkinUnavailableQ, sRequestHighWater, runPc, incomplete,
                   poolTasks>>

\* An onCompleted for a LOD handler whose failure path puts the request back in
\* mLODReqQ with a back-off instead of reporting it: the variant the immediate
\* report has to tell apart.
onCompletedLODRetrying(h, resp) ==
    /\ runPc = "update"
    /\ h \in BagToSet(mHttpRequestSet)
    /\ h.kind = "lod"
    /\ mHttpRequestSet' = BagRemove(mHttpRequestSet, h)
    /\ lastResponse' = resp
    /\ IF resp # "ok"
       THEN /\ mLODReqQ' = Append(mLODReqQ, updateTime(LODRequest(h.mId, h.mLOD)))
            /\ UNCHANGED poolTasks
       ELSE /\ poolTasks' = BagAdd(poolTasks, h @@ [content |-> "data", stage |-> "posted"])
            /\ UNCHANGED mLODReqQ
    /\ UNCHANGED <<asset, lockVars, exitVars, mUploads, decompVars,
                   notified, calls, refusals, registryVars, mHeaderReqQ, mSkinRequests,
                   completionVars, mMeshHeader, mPendingLOD, sRequestHighWater, runPc,
                   incomplete, cache, lodLoaded>>

\* LLMeshHandlerBase::onCompleted for a LOD handler: LLMeshLODHandler::processFailure,
\* or processData posting processLod to the pool.
onCompletedLOD(h, resp) ==
    /\ runPc = "update"
    /\ h \in BagToSet(mHttpRequestSet)
    /\ h.kind = "lod"
    /\ mHttpRequestSet' = BagRemove(mHttpRequestSet, h)
    /\ lastResponse' = resp
    /\ IF Failed(resp)
       THEN /\ mUnavailableQ' = Append(mUnavailableQ, [mId |-> h.mId, mLOD |-> h.mLOD])
            /\ UNCHANGED poolTasks
       ELSE /\ poolTasks' = BagAdd(poolTasks, h @@ [content |-> Body(resp), stage |-> "posted"])
            /\ UNCHANGED mUnavailableQ
    /\ UNCHANGED <<asset, lockVars, exitVars, mUploads,
                   decompVars, notified, calls, refusals, registryVars, queueVars, mLoadedQ,
                   mSkinInfoQ,
                   mSkinUnavailableQ, mMeshHeader, mPendingLOD, sRequestHighWater, runPc,
                   incomplete, cache, lodLoaded>>

\* LLMeshHandlerBase::onCompleted for a skin handler: LLMeshSkinInfoHandler::processFailure,
\* or processData posting processSkin to the pool.
onCompletedSkin(h, resp) ==
    /\ runPc = "update"
    /\ h \in BagToSet(mHttpRequestSet)
    /\ h.kind = "skin"
    /\ mHttpRequestSet' = BagRemove(mHttpRequestSet, h)
    /\ lastResponse' = resp
    /\ IF Failed(resp)
       THEN /\ mSkinUnavailableQ' = Append(mSkinUnavailableQ, h.mId)
            /\ UNCHANGED poolTasks
       ELSE /\ poolTasks' = BagAdd(poolTasks, h @@ [content |-> Body(resp), stage |-> "posted"])
            /\ UNCHANGED mSkinUnavailableQ
    /\ UNCHANGED <<asset, lockVars, exitVars, mUploads,
                   decompVars, notified, calls, refusals, registryVars, queueVars, mLoadedQ,
                   mSkinInfoQ,
                   mUnavailableQ, mMeshHeader, mPendingLOD, sRequestHighWater, runPc,
                   incomplete, cache, lodLoaded>>

\* The in-cache bit of sub-section sec in a header record, and the record with
\* the bit set.
InCache(header, sec) ==
    CASE sec[1] = "skin" -> header.mSkinInCache
      [] sec[1] = "decomposition" -> header.mPhysicsConvexInCache
      [] sec[1] = "physics" -> header.mPhysicsMeshInCache
      [] OTHER -> header.mLodInCache[sec[2]]
SetInCache(header, sec) ==
    CASE sec[1] = "skin" -> [header EXCEPT !.mSkinInCache = TRUE]
      [] sec[1] = "decomposition" -> [header EXCEPT !.mPhysicsConvexInCache = TRUE]
      [] sec[1] = "physics" -> [header EXCEPT !.mPhysicsMeshInCache = TRUE]
      [] OTHER -> [header EXCEPT !.mLodInCache[sec[2]] = TRUE]

\* The end of LLMeshDecompositionHandler / LLMeshPhysicsShapeHandler::processData:
\* if the file is large enough, set the in-cache bit, rewrite the preamble and
\* write the bytes (good: the bytes are the asset's). The result holds
\* mMeshHeader and the cache.
WriteToCache(h, sec, good) ==
    LET id == h.mId
        fits == id \in DOMAIN cache
                /\ cache[id].size >= h.mOffset + CACHE_PREAMBLE_SIZE + h.mRequestedBytes
        set == hasHeader(id) /\ ~InCache(mMeshHeader[id], sec)
        updated == SetInCache(mMeshHeader[id], sec)
        flags == IF set THEN getFlags(updated) ELSE 0
        f1 == IF flags > 0
              THEN [cache[id] EXCEPT !.header_size = updated.mHeaderSize, !.flags = flags]
              ELSE cache[id]
        f2 == IF good THEN [f1 EXCEPT !.written = @ \cup {sec}, !.corrupt = @ \ {sec}]
              ELSE [f1 EXCEPT !.corrupt = @ \cup {sec}, !.written = @ \ {sec}]
    IN  IF ~fits THEN [hdr |-> mMeshHeader, cache |-> cache]
        ELSE [hdr |-> IF set THEN [mMeshHeader EXCEPT ![id] = updated] ELSE mMeshHeader,
              cache |-> [cache EXCEPT ![id] = f2]]

\* LLMeshHandlerBase::onCompleted for a decomposition handler:
\* LLMeshDecompositionHandler::processFailure or processData.
onCompletedDecomposition(h, resp) ==
    /\ runPc = "update"
    /\ h \in BagToSet(mHttpRequestSet)
    /\ h.kind = "decomposition"
    /\ mHttpRequestSet' = BagRemove(mHttpRequestSet, h)
    /\ lastResponse' = resp
    /\ LET received == IF Failed(resp) THEN <<>> ELSE decompositionReceived(h.mId, Body(resp))
           w == WriteToCache(h, <<"decomposition">>, TRUE)
       IN  /\ mDecompositionQ' = mDecompositionQ \o received
           /\ mMeshHeader' = IF received # <<>> THEN w.hdr ELSE mMeshHeader
           /\ cache' = IF received # <<>> THEN w.cache ELSE cache
    /\ UNCHANGED <<asset, lockVars, exitVars, mUploads,
                   notified, calls, refusals, registryVars, queueVars,
                   completionVars, mPendingLOD, sRequestHighWater, runPc, incomplete,
                   poolTasks, lodLoaded, mLoadingDecompositions, mLoadingPhysicsShapes,
                   mPendingDecompositionRequests, mPendingPhysicsShapeRequests,
                   mDecompositionMap, mDecompositionRequests, mPhysicsShapeRequests>>

\* LLMeshHandlerBase::onCompleted for a physics shape handler:
\* LLMeshPhysicsShapeHandler::processFailure or processData; physicsShapeReceived
\* returns MESH_OK whether or not the bytes unpack.
onCompletedPhysicsShape(h, resp) ==
    /\ runPc = "update"
    /\ h \in BagToSet(mHttpRequestSet)
    /\ h.kind = "physics"
    /\ mHttpRequestSet' = BagRemove(mHttpRequestSet, h)
    /\ lastResponse' = resp
    /\ LET received == IF Failed(resp) THEN <<>> ELSE physicsShapeReceived(h.mId, Body(resp))
           w == WriteToCache(h, <<"physics">>, resp = "ok")
       IN  /\ mDecompositionQ' = mDecompositionQ \o received
           /\ mMeshHeader' = IF received # <<>> THEN w.hdr ELSE mMeshHeader
           /\ cache' = IF received # <<>> THEN w.cache ELSE cache
    /\ UNCHANGED <<asset, lockVars, exitVars, mUploads,
                   notified, calls, refusals, registryVars, queueVars,
                   completionVars, mPendingLOD, sRequestHighWater, runPc, incomplete,
                   poolTasks, lodLoaded, mLoadingDecompositions, mLoadingPhysicsShapes,
                   mPendingDecompositionRequests, mPendingPhysicsShapeRequests,
                   mDecompositionMap, mDecompositionRequests, mPhysicsShapeRequests>>

\* ------------------------------------------------------------- parse pool
Section(t) == IF t.kind \in {"lod", "lodCache"} THEN <<"lod", t.mLOD>> ELSE <<"skin">>
IsLodTask(t) == t.kind \in {"lod", "lodCache"}

\* lodReceived / skinInfoReceived as run by a pool task t: the completion pushed.
Received(t) ==
    /\ mLoadedQ' = IF IsLodTask(t) /\ Parses(t.content)
                   THEN Append(mLoadedQ, [mId |-> t.mId, mLOD |-> t.mLOD]) ELSE mLoadedQ
    /\ lodLoaded' = IF IsLodTask(t) /\ Parses(t.content)
                    THEN lodLoaded \cup {<<t.mId, t.mLOD>>} ELSE lodLoaded
    /\ mSkinInfoQ' = IF ~IsLodTask(t) /\ Parses(t.content)
                     THEN Append(mSkinInfoQ, t.mId) ELSE mSkinInfoQ

\* LLMeshLODHandler::processLod / LLMeshSkinInfoHandler::processSkin, first part:
\* the bytes of the response are parsed and the completion is pushed.
PoolParse(t) ==
    /\ t \in BagToSet(poolTasks)
    /\ t.kind \in {"lod", "skin"}
    /\ t.stage = "posted"
    /\ Received(t)
    /\ LET fits == t.mId \in DOMAIN cache
                   /\ cache[t.mId].size >= t.mOffset + CACHE_PREAMBLE_SIZE + t.mRequestedBytes
       IN  /\ poolTasks' = IF Parses(t.content) /\ fits
                           THEN BagAdd(BagRemove(poolTasks, t), [t EXCEPT !.stage = "parsed"])
                           ELSE BagRemove(poolTasks, t)
           /\ mUnavailableQ' = IF IsLodTask(t) /\ ~Parses(t.content)
                               THEN Append(mUnavailableQ, [mId |-> t.mId, mLOD |-> t.mLOD])
                               ELSE mUnavailableQ
           /\ mSkinUnavailableQ' = IF ~IsLodTask(t) /\ ~Parses(t.content)
                                   THEN Append(mSkinUnavailableQ, t.mId)
                                   ELSE mSkinUnavailableQ
    /\ UNCHANGED <<asset, lockVars, exitVars, mUploads, decompVars,
                   lastResponse, notified, calls, refusals, registryVars, queueVars,
                   mMeshHeader, mPendingLOD,
                   mHttpRequestSet, sRequestHighWater, runPc, incomplete, cache>>

\* processLod / processSkin, second part: the in-cache bit is set in the header
\* record and the preamble is rewritten with the new flags word.
PoolFlag(t) ==
    /\ t \in BagToSet(poolTasks)
    /\ t.stage = "parsed"
    /\ LET header == mMeshHeader[t.mId]
           already == IF IsLodTask(t) THEN header.mLodInCache[t.mLOD] ELSE header.mSkinInCache
           updated == IF IsLodTask(t) THEN [header EXCEPT !.mLodInCache[t.mLOD] = TRUE]
                      ELSE [header EXCEPT !.mSkinInCache = TRUE]
           flags == IF already THEN 0 ELSE getFlags(updated)
       IN  /\ mMeshHeader' = IF hasHeader(t.mId) /\ ~already
                             THEN [mMeshHeader EXCEPT ![t.mId] = updated] ELSE mMeshHeader
           /\ cache' = IF hasHeader(t.mId) /\ flags > 0
                       THEN [cache EXCEPT ![t.mId].header_size = header.mHeaderSize,
                                          ![t.mId].flags = flags]
                       ELSE cache
    /\ poolTasks' = BagAdd(BagRemove(poolTasks, t), [t EXCEPT !.stage = "flagged"])
    /\ UNCHANGED <<asset, lockVars, exitVars, mUploads, decompVars,
                   lastResponse, notified, calls, refusals, registryVars, queueVars,
                   completionVars,
                   mPendingLOD, mHttpRequestSet, sRequestHighWater, runPc, incomplete,
                   lodLoaded>>

\* processLod / processSkin, last part: file.seek, file.write of the bytes.
PoolWrite(t) ==
    /\ t \in BagToSet(poolTasks)
    /\ t.stage = "flagged"
    /\ cache' = [cache EXCEPT ![t.mId].written = @ \cup {Section(t)}]
    /\ poolTasks' = BagRemove(poolTasks, t)
    /\ UNCHANGED <<asset, lockVars, exitVars, mUploads, decompVars,
                   lastResponse, notified, calls, refusals, registryVars, queueVars,
                   completionVars,
                   mMeshHeader, mPendingLOD, mHttpRequestSet, sRequestHighWater, runPc,
                   incomplete, lodLoaded>>

\* The task fetchMeshLOD / fetchMeshSkinInfo post for bytes read from the cache:
\* parse them; if that fails mark every sub-section as missing, rewrite the
\* preamble and queue the request again.
PoolCacheParse(t) ==
    /\ t \in BagToSet(poolTasks)
    /\ t.kind \in {"lodCache", "skinCache"}
    /\ Received(t)
    /\ poolTasks' = BagRemove(poolTasks, t)
    /\ IF Parses(t.content)
       THEN UNCHANGED <<mMeshHeader, cache, mLODReqQ, mSkinRequests>>
       ELSE LET cleared == [mMeshHeader[t.mId] EXCEPT
                               !.mSkinInCache = FALSE,
                               !.mPhysicsConvexInCache = FALSE,
                               !.mPhysicsMeshInCache = FALSE,
                               !.mLodInCache = [l \in Lods |-> FALSE]]
            IN  /\ mMeshHeader' = [mMeshHeader EXCEPT ![t.mId] = cleared]
                /\ cache' = IF cleared.mHeaderSize > 0
                            THEN [cache EXCEPT ![t.mId].header_size = cleared.mHeaderSize,
                                               ![t.mId].flags = getFlags(cleared)]
                            ELSE cache
                /\ mLODReqQ' = IF IsLodTask(t)
                               THEN Append(mLODReqQ, LODRequest(t.mId, t.mLOD)) ELSE mLODReqQ
                /\ mSkinRequests' = IF IsLodTask(t) THEN mSkinRequests
                                    ELSE Append(mSkinRequests, UUIDBasedRequest(t.mId))
    /\ UNCHANGED <<asset, lockVars, exitVars, mUploads, decompVars,
                   lastResponse, notified, calls, refusals, registryVars, mHeaderReqQ,
                   mUnavailableQ,
                   mSkinUnavailableQ, mPendingLOD, mHttpRequestSet, sRequestHighWater,
                   runPc, incomplete>>

\* ------------------------------------------------------------ specifications
\* The steps of the repo worker, the transport and the pool, with the answers
\* the HTTP layer may give to a request to issue.
Pipeline(issues, responses) ==
    \/ \E h \in BagToSet(mHttpRequestSet), resp \in responses : onCompletedHeader(h, resp)
    \/ \E h \in BagToSet(mHttpRequestSet), resp \in responses : onCompletedLOD(h, resp)
    \/ \E h \in BagToSet(mHttpRequestSet), resp \in responses : onCompletedSkin(h, resp)
    \/ RunUpdateDone
    \/ \E expired \in BOOLEAN, issue \in issues : RunSkinStep(expired, issue)
    \/ RunSkinDone
    \/ \E expired \in BOOLEAN, issue \in issues : RunLODStep(expired, issue)
    \/ RunLODDone
    \/ \E expired \in BOOLEAN, issue \in issues : RunHeaderStep(expired, issue)
    \/ RunHeaderDone
    \/ \E t \in BagToSet(poolTasks) : PoolParse(t)
    \/ \E t \in BagToSet(poolTasks) : PoolFlag(t)
    \/ \E t \in BagToSet(poolTasks) : PoolWrite(t)
    \/ \E t \in BagToSet(poolTasks) : PoolCacheParse(t)

\* The viewer with an HTTP layer that accepts every request it is given.
Next ==
    \/ \E vobj \in Objects, id \in MeshIds, lod \in 0 .. MaxReqLod : loadMesh(vobj, id, lod)
    \/ \E vobj \in Objects, id \in MeshIds : getSkinInfo(vobj, id)
    \/ \E vobj \in Objects : unregisterMesh(vobj)
    \/ \E mark \in HighWaterLow .. HighWaterHigh :
          \E sel \in DispatchOrders(mark), match \in Matches(Objects) :
              notifyLoadedMeshes(mark, sel, match)
    \/ Pipeline({"issued", "nourl"}, Responses)

Spec == Init /\ [][Next]_vars

\* The viewer with an HTTP layer that may refuse to issue a request: one object
\* asks for LODs, and getByteRange may return an invalid handle.
NextRefused ==
    \/ \E id \in MeshIds, lod \in 0 .. MaxReqLod :
          calls < MaxRefusedCalls /\ loadMesh(1, id, lod)
    \/ \E sel \in DispatchOrders(HighWaterHigh), match \in Matches({1}) :
          notifyLoadedMeshes(HighWaterHigh, sel, match)
    \/ Pipeline(IssueResults, Responses)

SpecRefused == Init /\ [][NextRefused]_vars

\* The steps of the repo worker and the transport for decompositions and
\* physics shapes.
PhysicsPipeline(issues, responses) ==
    \/ \E h \in BagToSet(mHttpRequestSet), resp \in responses :
          onCompletedDecomposition(h, resp)
    \/ \E h \in BagToSet(mHttpRequestSet), resp \in responses :
          onCompletedPhysicsShape(h, resp)
    \/ \E expired \in BOOLEAN, issue \in issues : RunDecompositionStep(expired, issue)
    \/ RunDecompositionDone
    \/ \E expired \in BOOLEAN, issue \in issues : RunPhysicsShapeStep(expired, issue)
    \/ RunPhysicsShapeDone

\* LLApp::setQuitting(): from now on LLApp::isExiting() is true.
setQuitting ==
    /\ ~isExiting
    /\ exiting' = [exiting EXCEPT !.isExiting = TRUE]
    /\ UNCHANGED <<asset, calls, refusals, registryVars, queueVars, completionVars,
                   decompVars, mMeshHeader, mPendingLOD, mHttpRequestSet,
                   sRequestHighWater, runPc, incomplete, poolTasks, cache, lodLoaded,
                   notified, lastResponse, lockVars, mUploads, skins, heap, decomposer>>

\* ~LLMeshRepoThread, once run() has returned: mHttpRequestSet.clear() destroys
\* the handlers that were never processed, then mSkinInfoQ and mDecompositionQ
\* are emptied.
DestroyRepoThread ==
    /\ isExiting
    /\ runPc = "update"
    /\ mHttpRequestSet # EmptyBag
    /\ LET hs == BagToSet(mHttpRequestSet)
           headers == {h \in hs : h.kind = "header"}
           lods == {h \in hs : h.kind = "lod"}
       IN  /\ mHeaderReqQ' =
                  IF headers = {} THEN mHeaderReqQ
                  ELSE DestroyedHeaderHandler(mHeaderReqQ, (CHOOSE h \in headers : TRUE).mId)
           /\ mLODReqQ' =
                  IF lods = {} THEN mLODReqQ
                  ELSE LET h == CHOOSE x \in lods : TRUE
                       IN  DestroyedLODHandler(mLODReqQ, h.mId, h.mLOD)
    /\ mHttpRequestSet' = EmptyBag
    /\ mSkinInfoQ' = <<>>
    /\ mDecompositionQ' = <<>>
    /\ UNCHANGED <<asset, calls, refusals, registryVars, mSkinRequests, mLoadedQ,
                   mUnavailableQ, mSkinUnavailableQ, mLoadingDecompositions,
                   mLoadingPhysicsShapes, mPendingDecompositionRequests,
                   mPendingPhysicsShapeRequests, mDecompositionMap,
                   mDecompositionRequests, mPhysicsShapeRequests, mMeshHeader,
                   mPendingLOD, sRequestHighWater, runPc, incomplete, poolTasks, cache,
                   lodLoaded, notified, lastResponse, lockVars, exitVars, mUploads>>

\* The answers of an HTTP layer that always has a capability URL and refuses
\* at most MaxExitRefusals requests.
ExitIssues == IF refusals < MaxExitRefusals THEN {"issued", "refused"} ELSE {"issued"}

\* The server holds an asset with every section, so that every kind of request
\* reaches the HTTP layer.
InitExiting == Init /\ asset = [id \in MeshIds |-> AssetLarge]

\* The main thread asks for nothing new once the viewer is told to quit; the
\* first request is the one for a LOD, and a second request is made once no
\* object waits for a LOD any more.
ExitCall(first) ==
    /\ ~isExiting
    /\ calls \in first .. MaxExitCalls - 1
    /\ first = 0 => calls = 0
    /\ first = 1 => mLoadingMeshes = EmptyMap

\* The viewer that may be told to quit at any moment: one object asks for a
\* LOD and then for a skin, a decomposition or a physics shape, and the HTTP
\* layer may refuse a request.
NextExiting ==
    \/ \E id \in MeshIds : ExitCall(0) /\ loadMesh(1, id, MaxReqLod)
    \/ \E id \in MeshIds : ExitCall(1) /\ getSkinInfo(1, id)
    \/ \E id \in MeshIds : ExitCall(1) /\ fetchPhysicsShape(id)
    \/ \E id \in MeshIds : ExitCall(1) /\ getDecomposition(id)
    \/ \E sel \in DispatchOrders(HighWaterHigh), match \in Matches({1}) :
          ~isExiting /\ notifyLoadedMeshes(HighWaterHigh, sel, match)
    \/ Pipeline(ExitIssues, {"ok"})
    \/ PhysicsPipeline(ExitIssues, {"ok"})
    \/ setQuitting
    \/ DestroyRepoThread

SpecExiting == InitExiting /\ [][NextExiting]_vars

\* The viewer with one object that asks for one LOD, decompositions and physics
\* shapes, and a server whose bodies may be ones no parser accepts.
NextPhysics ==
    \/ \E id \in MeshIds : loadMesh(1, id, MaxReqLod)
    \/ \E id \in MeshIds : fetchPhysicsShape(id)
    \/ \E id \in MeshIds : getDecomposition(id)
    \/ \E sel \in DispatchOrders(HighWaterHigh), match \in Matches({1}) :
          notifyLoadedMeshes(HighWaterHigh, sel, match)
    \/ Pipeline({"issued"}, BodyResponses)
    \/ PhysicsPipeline({"issued"}, BodyResponses)

SpecPhysics == Init /\ [][NextPhysics]_vars

\* -------------------------------------------------------- lock operations
\* The variables no lock operation touches.
dataVars ==
    <<asset, calls, refusals, registryVars, queueVars, completionVars, decompVars,
      mMeshHeader, mPendingLOD, mHttpRequestSet, sRequestHighWater, runPc, incomplete,
      poolTasks, cache, lodLoaded, notified, lastResponse, exitVars, mUploads>>

\* The lock operations of loadMeshLOD / loadMeshSkinInfo for the requests the
\* dispatch loop hands over: hasHeader locks mHeaderMutex; with a header,
\* mMutex around the push; without one, mPendingMutex for the rest of the call
\* and, under it, mMutex around the push of a new header request.
RECURSIVE DispatchLocks(_, _, _, _)
DispatchLocks(q, P, sel, i) ==
    IF i > Len(sel) THEN <<>>
    ELSE LET req == P[sel[i]]
             q2 == IF req.type = "lod" THEN loadMeshLOD(q, req.mId, req.mLOD)
                   ELSE loadMeshSkinInfo(q, req.mId)
             ops == IF req.type # "lod" THEN <<>>
                    ELSE Scope("mHeaderMutex") \o
                         (IF hasHeader(req.mId) THEN Scope("mMutex")
                          ELSE <<LockOp("lock", "mPendingMutex")>> \o
                               (IF req.mId \in DOMAIN q.p THEN <<>> ELSE Scope("mMutex")) \o
                               <<LockOp("unlock", "mPendingMutex")>>)
         IN  ops \o DispatchLocks(q2, P, sel, i + 1)

\* The LLMutexTrylock objects go out of scope in reverse order.
ReleaseTryLocks ==
    <<LockOp("unlock", "mPendingMutex"), LockOp("unlock", "mHeaderMutex"),
      LockOp("unlock", "mMutex"), LockOp("unlock", "mMeshMutex")>>

\* notifyLoadedMeshes up to the point where it holds the four locks; what the
\* call does under them is done, and its lock operations are still to come.
notifyLoadedMeshesBegin(mark, sel, match) ==
    /\ lockOps["main"] = <<>>
    /\ mInventoryQ = 0
    /\ TryLocksSucceed
    /\ notifyLoadedMeshesLocked(mark, sel, match)
    /\ hold_offs' = 0
    /\ mutex' = [m \in AllMutexes |->
                    IF m \in TryLocked THEN [owner |-> "main", count |-> 1] ELSE mutex[m]]
    /\ lockOps' = [lockOps EXCEPT !["main"] =
                       DispatchLocks(Queues, mPendingRequests,
                                     SubSeq(sel, 1, Dispatched(mark)), 1)
                       \o ReleaseTryLocks]
    /\ UNCHANGED mInventoryQ

\* notifyLoadedMeshes finds upload results in mInventoryQ: it locks mMeshMutex
\* and empties the queue before it goes on to its try-locks.
notifyLoadedMeshesInventory ==
    /\ lockOps["main"] = <<>>
    /\ mInventoryQ > 0
    /\ mInventoryQ' = 0
    /\ lockOps' = [lockOps EXCEPT !["main"] = Scope("mMeshMutex")]
    /\ UNCHANGED <<dataVars, mutex, hold_offs>>

\* The lock operations of the code paths of the repo worker and of a pool
\* thread. A turn of the skin or LOD loop of run() pops under mMutex and the
\* fetch looks the header up under mHeaderMutex; headerReceived stores the
\* header under mHeaderMutex, marks the skin as loading under mMeshMutex, takes
\* the pending LODs under mPendingMutex and queues them under mMutex; a pool
\* task whose cached bytes do not parse clears the bits under mHeaderMutex and
\* re-queues under mMutex.
RunTurnLocks == Scope("mMutex") \o Scope("mHeaderMutex")
headerReceivedLocks ==
    Scope("mHeaderMutex") \o Scope("mMeshMutex") \o Scope("mPendingMutex") \o Scope("mMutex")
CacheMismatchLocks == Scope("mHeaderMutex") \o Scope("mMutex")

\* The code paths thread t may enter in the current state.
LockPaths(t) ==
    IF t = "repo"
    THEN (IF \/ runPc = "skin" /\ mSkinRequests # <<>>
             \/ runPc = "lod" /\ mLODReqQ # <<>>
          THEN {RunTurnLocks} ELSE {})
         \cup
         (IF \/ runPc = "header" /\ mHeaderReqQ # <<>>
             \/ \E h \in BagToSet(mHttpRequestSet) : h.kind = "header"
          THEN {headerReceivedLocks} ELSE {})
    ELSE IF t = "pool"
    THEN (IF poolTasks # EmptyBag THEN {CacheMismatchLocks} ELSE {})
    ELSE {}

\* Thread t enters a code path.
EnterLocks(t) ==
    /\ lockOps[t] = <<>>
    /\ \E path \in LockPaths(t) : lockOps' = [lockOps EXCEPT ![t] = path]
    /\ UNCHANGED <<dataVars, mutex, hold_offs, mInventoryQ>>

\* Thread t does the next lock operation of its code path; LLMutex::lock
\* returns once the mutex is free or owned by the caller.
LockStep(t) ==
    /\ lockOps[t] # <<>>
    /\ LET o == Head(lockOps[t])
       IN  IF o.op = "lock"
           THEN MayLock(t, o.m) /\ mutex' = Locked(mutex, t, o.m)
           ELSE mutex' = Unlocked(mutex, o.m)
    /\ lockOps' = [lockOps EXCEPT ![t] = Tail(@)]
    /\ UNCHANGED <<dataVars, hold_offs, mInventoryQ>>

\* The viewer with its lock operations: the main thread's loadMesh waits for
\* mMeshMutex, notifyLoadedMeshes tries its four locks, and the repo worker and
\* the pool take theirs around their steps.
NextLocks ==
    \/ \E id \in MeshIds, lod \in 0 .. MaxReqLod :
          /\ lockOps["main"] = <<>>
          /\ MayLock("main", "mMeshMutex")
          /\ calls < MaxLockCalls
          /\ loadMesh(1, id, lod)
    \/ \E sel \in DispatchOrders(HighWaterHigh), match \in Matches({1}) :
          notifyLoadedMeshesBegin(HighWaterHigh, sel, match)
    \/ \E sel \in DispatchOrders(HighWaterHigh), match \in Matches({1}) :
          /\ lockOps["main"] = <<>>
          /\ mInventoryQ = 0
          /\ ~TryLocksSucceed
          /\ notifyLoadedMeshes(HighWaterHigh, sel, match)
    \/ notifyLoadedMeshesInventory
    \/ updateInventory
    \/ \E t \in Threads : EnterLocks(t)
    \/ \E t \in Threads : LockStep(t)
    \/ /\ lockOps["repo"] = <<>>
       /\ lockOps["pool"] = <<>>
       /\ Pipeline({"issued"}, {"ok"})

SpecLocks == Init /\ [][NextLocks]_vars

\* The sub-sections an asset has, and the header records of the asset that
\* differ in their in-cache marks only (marks are set for sections of positive
\* size).
SectionsOf(a) ==
    {<<"lod", l>> : l \in {l \in Lods : a.lod_size[l] > 0}}
    \cup (IF a.skin_size > 0 THEN {<<"skin">>} ELSE {})
    \cup (IF a.physics_convex_size > 0 THEN {<<"decomposition">>} ELSE {})
    \cup (IF a.physics_mesh_size > 0 THEN {<<"physics">>} ELSE {})

Marked(a, secs) ==
    LET h == [fromLLSD(a) EXCEPT !.mHeaderSize = a.header_size]
    IN  [h EXCEPT !.mSkinInCache = <<"skin">> \in secs,
                  !.mPhysicsConvexInCache = <<"decomposition">> \in secs,
                  !.mPhysicsMeshInCache = <<"physics">> \in secs,
                  !.mLodInCache = [l \in Lods |-> <<"lod", l>> \in secs]]

\* The cache files an earlier run of the viewer may have left for the asset a:
\* the reservation LLMeshHeaderHandler::processData made (preamble, the bytes
\* of the header response, zeros) with the preamble last written by
\* write_preamble(file, header_size, header.getFlags()) from a header record
\* with the marks secs. None is left for a header that was treated as 404.
LeftInCache(a) ==
    LET h0 == fromLLSD(a)
    IN  IF h0.mVersion > MAX_MESH_VERSION \/ getActualMeshLOD(h0, 0) < 0 THEN {}
        ELSE {write_preamble(
                  [CacheFile(ReservedBytes(Marked(a, secs)), 0, 0,
                             Min(Min(MESH_HEADER_SIZE, a.total), ReservedBytes(Marked(a, secs))))
                       EXCEPT !.written = secs],
                  a.header_size, getFlags(Marked(a, secs))) : secs \in SUBSET SectionsOf(a)}

\* The viewer started with the asset cache an earlier run left, or with none.
InitCached ==
    /\ Constructed
    /\ cache \in {EmptyMap} \cup
                 UNION {[MeshIds -> LeftInCache(asset[id])] : id \in MeshIds}

\* One object asks for LODs of a mesh whose header may be in the cache.
NextCached ==
    \/ \E id \in MeshIds, lod \in 0 .. MaxReqLod :
          loadMeshWithin(MaxCachedCalls, 1, id, lod)
    \/ \E sel \in DispatchOrders(HighWaterHigh), match \in Matches({1}) :
          notifyLoadedMeshes(HighWaterHigh, sel, match)
    \/ Pipeline({"issued"}, {"ok"})

SpecCached == InitCached /\ [][NextCached]_vars

\* The viewer whose objects ask for LODs often enough for the pending queue to
\* be sorted and for requests to queue up behind a stored header.
NextDispatch ==
    \/ \E vobj \in Objects, id \in MeshIds, lod \in 0 .. MaxReqLod :
          loadMeshWithin(MaxDispatchCalls, vobj, id, lod)
    \/ \E mark \in HighWaterLow .. HighWaterHigh :
          \E sel \in DispatchOrders(mark), match \in Matches(Objects) :
              notifyLoadedMeshes(mark, sel, match)
    \/ Pipeline({"issued"}, {"ok"})

SpecDispatch == Init /\ [][NextDispatch]_vars

\* ------------------------------------------------------------------ claims
\* The handlers outstanding for sub-section (kind, id, lod); lod is -1 for the
\* header and the skin.
HandlesFor(kind, id, lod) ==
    {h \in BagToSet(mHttpRequestSet) : h.kind = kind /\ h.mId = id /\ h.mLOD = lod}

\* The number of handlers outstanding for sub-section (kind, id, lod).
HandleCount(kind, id, lod) ==
    LET hs == HandlesFor(kind, id, lod)
        RECURSIVE Sum(_)
        Sum(S) == IF S = {} THEN 0
                  ELSE LET h == CHOOSE x \in S : TRUE
                       IN  CopiesIn(h, mHttpRequestSet) + Sum(S \ {h})
    IN  Sum(hs)

\* The handlers a step adds to the handler set.
Issued ==
    {h \in BagToSet(mHttpRequestSet') :
        CopiesIn(h, mHttpRequestSet') > CopiesIn(h, mHttpRequestSet)}

\* C1 (as stated): for every mesh id and sub-section (header, skin, one LOD) at
\* most one HTTP handle is outstanding, whatever the interleaving of loadMesh,
\* getSkinInfo, header arrival and worker retries.
C1_OneHandlePerSection ==
    \A id \in MeshIds :
        /\ HandleCount("header", id, -1) <= 1
        /\ HandleCount("skin", id, -1) <= 1
        /\ \A lod \in Lods : HandleCount("lod", id, lod) <= 1

C2_BodyHandlersHaveHeader ==
    \A h \in BagToSet(mHttpRequestSet) : h.kind # "header" => hasHeader(h.mId)

\* C2's case: a skin request waits in the worker's queue while no header is
\* known, and later a LOD or skin handler is outstanding.
C2_SkinQueuedWithoutHeader ==
    \E i \in 1 .. Len(mSkinRequests) : ~hasHeader(mSkinRequests[i].mId)

PassEnds == runPc # "update" /\ runPc' = "update"

\* C3 (as stated): after every pass of the repo worker over its request queues
\* the number of outstanding HTTP handles does not exceed the high-water mark.
C3_BoundedAfterPass ==
    [][PassEnds => HttpSetSize' <= sRequestHighWater']_vars

\* C3 (amended): the worker adds a handle only while the number of outstanding
\* handles is below the high-water mark in force at that moment, and one at a
\* time; the count can exceed the mark only because the mark was lowered.
C3_IssuedBelowTheMark ==
    [][/\ HttpSetSize' > HttpSetSize =>
              /\ HttpSetSize < sRequestHighWater
              /\ HttpSetSize' = HttpSetSize + 1
       /\ (HttpSetSize <= sRequestHighWater /\ HttpSetSize' > sRequestHighWater') =>
              sRequestHighWater' < sRequestHighWater]_vars

\* C3's case: a loop of the pass stops at the mark with requests still queued.
C3_LoopStoppedByTheMark ==
    /\ runPc = "lod"
    /\ mLODReqQ # <<>>
    /\ HttpSetSize = sRequestHighWater
    /\ HttpSetSize > 0

\* The header fetches that exist for an identifier: requests queued in mHeaderReqQ
\* or set aside by the header loop for the end of the pass, and handlers in flight.
HeaderFetches(id) ==
    Cardinality({i \in DOMAIN mHeaderReqQ : mHeaderReqQ[i].mId = id})
    + (IF runPc = "header"
       THEN Cardinality({i \in DOMAIN incomplete : incomplete[i].mId = id}) ELSE 0)
    + HandleCount("header", id, -1)

\* C4 (as stated): at most one header fetch, queued or in flight, exists per
\* identifier at any time; LOD requests that arrive meanwhile only increment
\* mPendingLOD and create no further header request.
C4_OneHeaderFetch ==
    \A id \in MeshIds : HeaderFetches(id) <= 1

\* The (id, lod) keys of the completions waiting in a queue.
KeysOf(queue) == {<<queue[i].mId, queue[i].mLOD>> : i \in DOMAIN queue}

\* A step that delivers LOD completions to the registry.
Delivers ==
    /\ mLoadedQ # <<>> \/ mUnavailableQ # <<>>
    /\ mLoadedQ' = <<>>
    /\ mUnavailableQ' = <<>>

\* How often the calls n tell object vobj about (id, lod), loaded or unavailable.
Times(n, key, vobj) ==
    Cardinality({i \in DOMAIN n : /\ n[i].what \in {"loaded", "unavailable"}
                                  /\ <<n[i].mId, n[i].mLOD>> = key
                                  /\ n[i].vobj = vobj})

\* C5 (as stated): when a completion for (id, lod) is delivered, every object
\* of that loading-table entry is notified exactly once and the entry is removed.
C5_NotifiedExactlyOnce ==
    [][Delivers =>
          \A key \in (KeysOf(mLoadedQ) \cup KeysOf(mUnavailableQ)) \cap DOMAIN mLoadingMeshes :
              /\ key \notin DOMAIN mLoadingMeshes'
              /\ \A vobj \in SeqToSet(mLoadingMeshes[key]) :
                     Times(notified', key, vobj) = 1]_vars

\* C5 (amended): when a completion for (id, lod) is delivered the entry is
\* removed; no object is told twice and only objects of the entry are told; a
\* loaded completion tells every object of the entry exactly once.
C5_NotifiedAtMostOnce ==
    [][Delivers =>
          \A key \in (KeysOf(mLoadedQ) \cup KeysOf(mUnavailableQ)) \cap DOMAIN mLoadingMeshes :
              /\ key \notin DOMAIN mLoadingMeshes'
              /\ \A vobj \in Objects :
                     /\ Times(notified', key, vobj) <= 1
                     /\ Times(notified', key, vobj) = 1 =>
                            vobj \in SeqToSet(mLoadingMeshes[key])
              /\ key \in KeysOf(mLoadedQ) =>
                     \A vobj \in SeqToSet(mLoadingMeshes[key]) :
                         Times(notified', key, vobj) = 1]_vars

\* C5's case: one delivery told two objects that the LOD they waited for is loaded.
C5_TwoObjectsToldLoaded ==
    \E i, j \in DOMAIN notified :
        /\ notified[i].what = "loaded"
        /\ notified[j].what = "loaded"
        /\ notified[i].vobj # notified[j].vobj
        /\ <<notified[i].mId, notified[i].mLOD>> = <<notified[j].mId, notified[j].mLOD>>

\* The in-cache bit of sub-section sec in the header records hdrs, and in the
\* preamble of the cache files files; FALSE where there is no record or file.
HeaderBit(hdrs, id, sec) ==
    /\ id \in DOMAIN hdrs
    /\ IF sec[1] = "skin" THEN hdrs[id].mSkinInCache ELSE hdrs[id].mLodInCache[sec[2]]

PreambleBit(files, id, sec) ==
    /\ id \in DOMAIN files
    /\ LET bit == IF sec[1] = "skin" THEN 1 ELSE 8 * (2 ^ sec[2])
       IN  (files[id].flags \div bit) % 2 = 1

\* The bytes of sub-section sec of the asset are in the cache file of id.
BytesInFile(files, id, sec) ==
    /\ id \in DOMAIN files
    /\ LET a == asset[id]
           off == a.header_size + (IF sec[1] = "skin" THEN a.skin_offset
                                   ELSE a.lod_offset[sec[2]])
           sz == IF sec[1] = "skin" THEN a.skin_size ELSE a.lod_size[sec[2]]
       IN  CacheContent(files[id], sec, off, sz) = "data"

Sections == {<<"skin">>} \cup {<<"lod", l>> : l \in Lods}

\* C6 (as stated): a sub-section's in-cache bit, in the header record and in
\* the cache preamble, turns from false to true only once the sub-section's
\* bytes are in the cache file.
C6_BitSetAfterBytesWritten ==
    [][\A id \in MeshIds, sec \in Sections :
          /\ (~HeaderBit(mMeshHeader, id, sec) /\ HeaderBit(mMeshHeader', id, sec))
                 => BytesInFile(cache', id, sec)
          /\ (~PreambleBit(cache, id, sec) /\ PreambleBit(cache', id, sec))
                 => BytesInFile(cache', id, sec)]_vars

\* C7 (as stated): a LOD that was already fetched and parsed, with its bytes in
\* the cache file, is fetched again without an HTTP request.
C7_RefetchWithoutHttp ==
    [][\A h \in Issued :
          h.kind = "lod" =>
              ~(/\ <<h.mId, h.mLOD>> \in lodLoaded
                /\ BytesInFile(cache, h.mId, <<"lod", h.mLOD>>))]_vars

\* The same, for the assets whose sub-sections do not end at the last byte of
\* the header response.
C7_RefetchWithoutHttpOffBoundary ==
    [][\A h \in Issued :
          (h.kind = "lod" /\ asset[h.mId] = AssetLarge) =>
              ~(/\ <<h.mId, h.mLOD>> \in lodLoaded
                /\ BytesInFile(cache, h.mId, <<"lod", h.mLOD>>))]_vars

\* A LOD of AssetLarge that was fetched before is read from the cache file.
C7_RefetchedFromCache ==
    \E t \in BagToSet(poolTasks) :
        t.kind = "lodCache" /\ <<t.mId, t.mLOD>> \in lodLoaded /\ t.content = "data"

\* The requests the worker holds: in its three queues and set aside by a loop.
QueuedRequests ==
    SeqToSet(mHeaderReqQ) \cup SeqToSet(mLODReqQ) \cup SeqToSet(mSkinRequests)
    \cup SeqToSet(incomplete)

C9_EightAttemptsThenAbandoned ==
    \A req \in QueuedRequests :
        /\ req.mRetries < 8
        /\ req.started => req.expiry <= 32000

\* The handler h leaves the handler set in this step: its onCompleted ran.
Completes(h) == CopiesIn(h, mHttpRequestSet') < CopiesIn(h, mHttpRequestSet)

HeaderFetchFailed(id) == ~hasHeader(id) /\ lastResponse \in {"fail", "badrange"}
ConfirmedAbsent(id) ==
    \/ hasHeader(id) /\ mMeshHeader[id].m404
    \/ HeaderFetchFailed(id)

\* Something that can still end in a completion for (id, lod) exists: the
\* request is pending, queued, set aside for the end of the loop, in flight or
\* being parsed, counted in mPendingLOD with a header fetch under way, or its
\* completion waits in a queue.
UnderWay(id, lod) ==
    \/ \E i \in DOMAIN mPendingRequests :
           mPendingRequests[i] = PendingRequestLOD(id, lod)
    \/ \E req \in SeqToSet(mLODReqQ) \cup SeqToSet(incomplete) :
           req.mId = id /\ req.mLOD = lod
    \/ HandleCount("lod", id, lod) > 0
    \/ \E t \in BagToSet(poolTasks) : IsLodTask(t) /\ t.mId = id /\ t.mLOD = lod
    \/ /\ id \in DOMAIN mPendingLOD
       /\ mPendingLOD[id][lod] > 0
       /\ HeaderFetches(id) > 0
    \/ <<id, lod>> \in KeysOf(mLoadedQ) \cup KeysOf(mUnavailableQ)

\* C11 (as stated): every object waiting in the loading table on a LOD of a
\* mesh that is confirmed absent gets an unavailable notification, whichever
\* LOD it asked for and whenever it registered: while it waits, something that
\* ends in a completion for that LOD is under way.
C11_AbsentMeshWaitersNotified ==
    \A id \in MeshIds, lod \in Lods :
        (/\ ConfirmedAbsent(id)
         /\ <<id, lod>> \in DOMAIN mLoadingMeshes
         /\ mLoadingMeshes[<<id, lod>>] # <<>>) => UnderWay(id, lod)

\* ---------------------------------------------------------------- C12
\* C12 (as stated): once the header fetch of an identifier has ended in a
\* non-success status the header map records the identifier as 404, and no
\* further HTTP request is issued for it.
C12_FailedHeaderRecorded404 ==
    [][/\ \A h \in BagToSet(mHttpRequestSet) :
              (h.kind = "header" /\ Completes(h) /\ lastResponse' # "ok") =>
                  /\ h.mId \in DOMAIN mMeshHeader'
                  /\ mMeshHeader'[h.mId].m404
       /\ \A h \in Issued : ~HeaderFetchFailed(h.mId)]_vars

\* The second half alone: no HTTP request is issued for an identifier whose
\* header fetch failed.
C12_NoHttpAfterFailedHeader ==
    [][\A h \in Issued : ~HeaderFetchFailed(h.mId)]_vars

\* ---------------------------------------------------------------- C13
\* The parser rejects bytes retrieved over HTTP in this step: a header,
\* decomposition or physics shape handler completes with a body that does not
\* parse (these parse inside processData), or the pool runs processLod /
\* processSkin on such a body.
RejectedInHandler(h) ==
    /\ h.kind \in {"header", "decomposition", "physics"}
    /\ Completes(h)
    /\ lastResponse' = "corrupt"
RejectedInPool(t) ==
    /\ t.kind \in {"lod", "skin"}
    /\ t.content = "corrupt"
    /\ CopiesIn(t, poolTasks') < CopiesIn(t, poolTasks)

\* No request is put back for another attempt in this step.
NotRequeued ==
    /\ mHeaderReqQ' = mHeaderReqQ
    /\ mLODReqQ' = mLODReqQ
    /\ mSkinRequests' = mSkinRequests
    /\ mDecompositionRequests' = mDecompositionRequests
    /\ mPhysicsShapeRequests' = mPhysicsShapeRequests
    /\ incomplete' = incomplete

\* The step reports the sub-section of the given kind to the registry as
\* unavailable: an entry in the unavailable queue of the kind, or for a
\* decomposition or physics shape, which have no such queue, a decomposition
\* without content in mDecompositionQ.
ReportedUnavailable(kind, id, lod) ==
    CASE kind = "header" ->
             mUnavailableQ' = mUnavailableQ \o
                 [l \in 1 .. NUM_LODS |-> [mId |-> id, mLOD |-> l - 1]]
      [] kind = "lod" -> mUnavailableQ' = Append(mUnavailableQ, [mId |-> id, mLOD |-> lod])
      [] kind = "skin" -> mSkinUnavailableQ' = Append(mSkinUnavailableQ, id)
      [] OTHER -> /\ Len(mDecompositionQ') = Len(mDecompositionQ) + 1
                  /\ mDecompositionQ'[Len(mDecompositionQ')] = Decomposition(id, FALSE, FALSE)

\* C13 (as stated): when bytes were retrieved over HTTP and the parser rejects
\* them, the request is reported unavailable and is not queued for another
\* attempt, for header, LOD, skin, decomposition and physics shape fetches.
C13_ParseFailureReported ==
    [][/\ \A h \in BagToSet(mHttpRequestSet) :
              RejectedInHandler(h) =>
                  ReportedUnavailable(h.kind, h.mId, h.mLOD) /\ NotRequeued
       /\ \A t \in BagToSet(poolTasks) :
              RejectedInPool(t) =>
                  ReportedUnavailable(t.kind, t.mId, t.mLOD) /\ NotRequeued]_vars

\* The same without the decomposition handler.
C13_ParseFailureReportedButDecomposition ==
    [][/\ \A h \in BagToSet(mHttpRequestSet) :
              (RejectedInHandler(h) /\ h.kind # "decomposition") =>
                  ReportedUnavailable(h.kind, h.mId, h.mLOD) /\ NotRequeued
       /\ \A h \in BagToSet(mHttpRequestSet) :
              (RejectedInHandler(h) /\ h.kind = "decomposition") => NotRequeued
       /\ \A t \in BagToSet(poolTasks) :
              RejectedInPool(t) =>
                  ReportedUnavailable(t.kind, t.mId, t.mLOD) /\ NotRequeued]_vars

\* The worker is about to fetch the LOD at the head of mLODReqQ, the header
\* marks it in-cache, the file is long enough and the region reads back zero.
ZeroLODAtHead ==
    /\ runPc = "lod"
    /\ mLODReqQ # <<>>
    /\ BelowHighWater
    /\ LET req == Head(mLODReqQ)
           id == req.mId
       IN  /\ ~req.started
           /\ hasHeader(id)
           /\ mMeshHeader[id].mHeaderSize > 0
           /\ mMeshHeader[id].mVersion <= MAX_MESH_VERSION
           /\ mMeshHeader[id].mLodSize[req.mLOD] > 0
           /\ mMeshHeader[id].mLodInCache[req.mLOD]
           /\ id \in DOMAIN cache
           /\ LET offset == mMeshHeader[id].mHeaderSize + mMeshHeader[id].mLodOffset[req.mLOD]
                  size == mMeshHeader[id].mLodSize[req.mLOD]
              IN  /\ cache[id].size >= offset + CACHE_PREAMBLE_SIZE + size
                  /\ CacheContent(cache[id], <<"lod", req.mLOD>>, offset, size) = "zero"

\* The same for the skin at the head of mSkinRequests.
ZeroSkinAtHead ==
    /\ runPc = "skin"
    /\ mSkinRequests # <<>>
    /\ BelowHighWater
    /\ LET req == Head(mSkinRequests)
           id == req.mId
       IN  /\ ~req.started
           /\ hasHeader(id)
           /\ mMeshHeader[id].mHeaderSize > 0
           /\ mMeshHeader[id].mVersion <= MAX_MESH_VERSION
           /\ mMeshHeader[id].mSkinSize > 0
           /\ mMeshHeader[id].mSkinInCache
           /\ id \in DOMAIN cache
           /\ LET offset == mMeshHeader[id].mHeaderSize + mMeshHeader[id].mSkinOffset
                  size == mMeshHeader[id].mSkinSize
              IN  /\ cache[id].size >= offset + CACHE_PREAMBLE_SIZE + size
                  /\ CacheContent(cache[id], <<"skin">>, offset, size) = "zero"

\* The worker took the head of the LOD (skin) queue in this step.
LODTaken == runPc = "lod" /\ runPc' = "lod" /\ mLODReqQ # <<>> /\ mLODReqQ' = Tail(mLODReqQ)
SkinTaken ==
    runPc = "skin" /\ runPc' = "skin" /\ mSkinRequests # <<>>
    /\ mSkinRequests' = Tail(mSkinRequests)

\* No in-cache bit is set in the header record of id.
AllBitsClear(hdrs, id) ==
    /\ ~hdrs[id].mSkinInCache
    /\ ~hdrs[id].mPhysicsConvexInCache
    /\ ~hdrs[id].mPhysicsMeshInCache
    /\ \A l \in Lods : ~hdrs[id].mLodInCache[l]

\* The step added exactly one handler, the one for sub-section (kind, id, lod).
OneIssuedFor(kind, id, lod) ==
    /\ \E h \in Issued : h.kind = kind /\ h.mId = id /\ h.mLOD = lod
    /\ BagCardinality(mHttpRequestSet') = BagCardinality(mHttpRequestSet) + 1

FirstPush(queue, key) ==
    CHOOSE i \in DOMAIN queue :
        /\ <<queue[i].mId, queue[i].mLOD>> = key
        /\ \A j \in 1 .. (i - 1) : <<queue[j].mId, queue[j].mLOD>> # key

\* The calls of kind what that this step makes on the objects are about
\* completions of queue and come in the order in which these were pushed.
InPushOrder(what, queue) ==
    \A i, j \in DOMAIN notified' :
        (i < j /\ notified'[i].what = what /\ notified'[j].what = what) =>
            LET ki == <<notified'[i].mId, notified'[i].mLOD>>
                kj == <<notified'[j].mId, notified'[j].mLOD>>
            IN  /\ ki \in KeysOf(queue)
                /\ kj \in KeysOf(queue)
                /\ FirstPush(queue, ki) <= FirstPush(queue, kj)

\* What scene objects can see of completions: the calls made on them, the
\* resident skins and decompositions, and the loading entries that went away.
VisibleChange ==
    \/ notified' # notified
    \/ mSkinMap' # mSkinMap
    \/ mDecompositionMap' # mDecompositionMap
    \/ \E k \in DOMAIN mLoadingMeshes : k \notin DOMAIN mLoadingMeshes'
    \/ \E k \in DOMAIN mLoadingSkins : k \notin DOMAIN mLoadingSkins'
    \/ \E k \in mLoadingDecompositions : k \notin mLoadingDecompositions'

\* The step is a notifyLoadedMeshes call: it drains every completion queue and
\* touches nothing that only the worker, a handler or a pool task writes.
DrainsCompletions ==
    /\ mLoadedQ' = <<>> /\ mUnavailableQ' = <<>> /\ mSkinInfoQ' = <<>>
    /\ mSkinUnavailableQ' = <<>> /\ mDecompositionQ' = <<>>
    /\ UNCHANGED <<runPc, incomplete, mHttpRequestSet, poolTasks, mMeshHeader, cache,
                   lodLoaded, lastResponse>>

Waits(t, m) ==
    /\ lockOps[t] # <<>>
    /\ Head(lockOps[t]) = LockOp("lock", m)
    /\ ~MayLock(t, m)

\* C16: no thread waits for a mutex that comes earlier in the order main-mutex,
\* worker-mutex, header-mutex, pending-mutex while it holds one that comes later
\* in that order.
C16_NoWaitAgainstLockOrder ==
    \A t \in Threads, m \in Mutexes :
        Waits(t, m) => \A held \in Holds(t) : Rank(held) < Rank(m)

\* C16's case: inside loadMeshLOD the main thread holds mPendingMutex and is
\* about to lock mMutex, which comes earlier in the order, while the repo worker
\* waits for a mutex.
C16_LocksWorkerMutexUnderPending ==
    /\ lockOps["main"] # <<>>
    /\ Head(lockOps["main"]) = LockOp("lock", "mMutex")
    /\ mutex["mPendingMutex"] = [owner |-> "main", count |-> 2]
    /\ \E m \in Mutexes : Waits("repo", m)

\* The worker's queues and tables that a dispatch writes.
dispatchVars ==
    <<mPendingRequests, mHeaderReqQ, mLODReqQ, mSkinRequests, mPendingLOD,
      mPendingDecompositionRequests, mPendingPhysicsShapeRequests,
      mDecompositionRequests, mPhysicsShapeRequests>>

\* The step is a notifyLoadedMeshes call that did not get its four locks.
HeldOff == hold_offs' = hold_offs + 1

CountOf(Q, r) == Cardinality({i \in DOMAIN Q : Q[i] = r})
CountScore(Q, v) == Cardinality({i \in DOMAIN Q : updateScore(Q[i]) = v})
Scores == {0} \cup {calculate_score(vobj) : vobj \in Objects}

\* The step is a notifyLoadedMeshes call that got its locks and handed requests
\* over or moved the high-water mark.
DispatchStep ==
    /\ TryLocksSucceed
    /\ \/ Len(mPendingRequests') < Len(mPendingRequests)
       \/ sRequestHighWater' # sRequestHighWater

\* push_count of the call: the new mark less the requests that are active.
Budget == sRequestHighWater' - ActiveCount

\* The request r left the pending queue in this step.
Dispatches(r) == CountOf(mPendingRequests', r) < CountOf(mPendingRequests, r)

\* C18: when the pending queue holds more requests than the dispatch budget N,
\* the N requests handed to the worker in that frame are exactly the N with the
\* highest scores and all others remain in the pending queue.
C18_HighestScoresDispatched ==
    [][(DispatchStep /\ Budget > 0 /\ Len(mPendingRequests) > Budget) =>
          /\ Len(mPendingRequests') = Len(mPendingRequests) - Budget
          /\ \A r \in SeqToSet(mPendingRequests') :
                 CountOf(mPendingRequests', r) <= CountOf(mPendingRequests, r)
          /\ \A v, w \in Scores :
                 (/\ CountScore(mPendingRequests, v) > CountScore(mPendingRequests', v)
                  /\ CountScore(mPendingRequests', w) > 0) => v >= w]_vars

\* C18's case: a LOD request was handed to the worker, which waits for the
\* header, while a request with a lower score was left in the pending queue.
C18_LowerScoreLeftBehind ==
    \E id \in DOMAIN mPendingLOD, lod \in Lods :
        /\ mPendingLOD[id][lod] > 0
        /\ \E i \in DOMAIN mPendingRequests :
               /\ mPendingRequests[i] # PendingRequestLOD(id, lod)
               /\ updateScore(mPendingRequests[i]) < updateScore(PendingRequestLOD(id, lod))

HeaderFromCache(id) ==
    /\ runPc = "header"
    /\ mHeaderReqQ # <<>>
    /\ Head(mHeaderReqQ).mId = id
    /\ id \in DOMAIN cache
    /\ cache[id].size > 0
    /\ id \notin DOMAIN mMeshHeader
    /\ id \in DOMAIN mMeshHeader'

\* C20 (as stated): writing a header's presence bits to the cache preamble and
\* then re-parsing the header from the cache yields the same presence bit for
\* every sub-section, for every combination of bits including all bits clear:
\* the record fetchMeshHeader stores has the marks of the record whose
\* getFlags() word stands in the preamble.
C20_PresenceBitsSurviveCache ==
    [][\A id \in MeshIds :
          HeaderFromCache(id) => getFlags(mMeshHeader'[id]) = cache[id].flags]_vars

\* The step is a turn of the physics shape loop of run() that attempts the
\* request for id (the request leaves the set and is not set aside).
PhysicsShapeAttempt(id) ==
    /\ runPc = "physics"
    /\ incomplete' = incomplete
    /\ \E req \in mPhysicsShapeRequests : req.mId = id /\ req \notin mPhysicsShapeRequests'

NullShape(id) == Decomposition(id, FALSE, FALSE)

meshVarsNoHeap ==
    <<asset, calls, refusals, registryVars, queueVars, completionVars, decompVars,
      mMeshHeader, mPendingLOD, mHttpRequestSet, sRequestHighWater, runPc, incomplete,
      poolTasks, cache, lodLoaded, notified, lastResponse, lockVars, skins>>
meshVars == <<meshVarsNoHeap, heap, decomposer>>

\* LLCondition::signal / broadcast as seen by the one thread that may wait on
\* the condition: a thread blocked in wait() is released, a thread that is
\* anywhere else notices nothing (the condition keeps no memory of the call).
Notified(at) == IF at = "waiting" THEN "woken" ELSE at

\* LLMeshRepoThread::run, the loop test 'while (!LLApp::isExiting())'.
RepoTest ==
    /\ repoAt = "test"
    /\ exiting' = [exiting EXCEPT !.repoAt = IF isExiting THEN "stopped" ELSE "wait"]
    /\ UNCHANGED <<meshVars, mUploads>>

\* LLMeshRepoThread::run, the call of mSignal->wait(): the thread blocks.
RepoWait ==
    /\ repoAt = "wait"
    /\ exiting' = [exiting EXCEPT !.repoAt = "waiting"]
    /\ UNCHANGED <<meshVars, mUploads>>

\* LLMeshRepoThread::run after wait() has returned: 'if (LLApp::isExiting())
\* break;', otherwise one pass over the queues and back to the loop test.
RepoPass ==
    /\ repoAt = "woken"
    /\ exiting' = [exiting EXCEPT !.repoAt = IF isExiting THEN "stopped" ELSE "test"]
    /\ UNCHANGED <<meshVars, mUploads>>

\* LLMeshRepository::notifyLoadedMeshes, its last statement
\* mThread->mSignal->signal(), once per frame while the viewer runs.
FrameSignal ==
    /\ shutdownAt = "running"
    /\ repoAt = "waiting"
    /\ exiting' = [exiting EXCEPT !.repoAt = Notified(repoAt)]
    /\ UNCHANGED <<meshVars, mUploads>>

\* LLPhysicsDecomp::submitRequest: push and signal.
submitRequest ==
    /\ shutdownAt = "running"
    /\ mRequestQ < MaxDecompRequests
    /\ exiting' = [exiting EXCEPT !.mRequestQ = mRequestQ + 1,
                                  !.decompAt = Notified(decompAt)]
    /\ UNCHANGED <<meshVars, mUploads>>

\* LLPhysicsDecomp::run, the loop test 'while (!mQuitting)'; mDone = true
\* follows the loop.
DecompTest ==
    /\ decompAt = "test"
    /\ exiting' = [exiting EXCEPT !.decompAt = IF mQuitting THEN "stopped" ELSE "wait"]
    /\ UNCHANGED <<meshVars, mUploads>>

\* LLPhysicsDecomp::run, the call of mSignal->wait(): the thread blocks.
DecompWait ==
    /\ decompAt = "wait"
    /\ exiting' = [exiting EXCEPT !.decompAt = "waiting"]
    /\ UNCHANGED <<meshVars, mUploads>>

\* LLPhysicsDecomp::run after wait() has returned: one turn of
\* 'while (!mQuitting && !mRequestQ.empty())', or back to the outer test.
DecompWork ==
    /\ decompAt = "woken"
    /\ exiting' = IF ~mQuitting /\ mRequestQ > 0
                  THEN [exiting EXCEPT !.mRequestQ = mRequestQ - 1]
                  ELSE [exiting EXCEPT !.decompAt = "test"]
    /\ UNCHANGED <<meshVars, mUploads>>

\* A wait() that returns although nobody signalled: the condition variable
\* allows it and promises nothing about it.
SpuriousWakeup ==
    /\ \/ repoAt = "waiting" /\ exiting' = [exiting EXCEPT !.repoAt = "woken"]
       \/ decompAt = "waiting" /\ exiting' = [exiting EXCEPT !.decompAt = "woken"]
    /\ UNCHANGED <<meshVars, mUploads>>

\* LLMeshRepository::shutdown up to its first wait: every upload is discarded
\* and mThread->cleanup() broadcasts the repo worker's condition. The viewer
\* calls shutdown when it is exiting.
shutdownCleanup ==
    /\ shutdownAt = "running"
    /\ isExiting
    /\ exiting' = [exiting EXCEPT !.shutdownAt = "joinRepo",
                                  !.repoAt = Notified(repoAt)]
    /\ mUploads' = [i \in DOMAIN mUploads |-> [mUploads[i] EXCEPT !.mDiscarded = TRUE]]
    /\ UNCHANGED meshVars

\* LLMeshRepository::shutdown, 'while (!mThread->isStopped()) apr_sleep(10);'
\* and 'while (!mUploads[i]->isStopped()) apr_sleep(10);' have ended, and
\* mUploads is cleared.
shutdownJoinRepo ==
    /\ shutdownAt = "joinRepo"
    /\ repoAt = "stopped"
    /\ \A i \in DOMAIN mUploads : mUploads[i].at = "stopped"
    /\ exiting' = [exiting EXCEPT !.shutdownAt = "decompShutdown"]
    /\ mUploads' = <<>>
    /\ UNCHANGED meshVars

\* LLPhysicsDecomp::shutdown: mQuitting = true; mSignal->broadcast().
shutdownDecomp ==
    /\ shutdownAt = "decompShutdown"
    /\ exiting' = [exiting EXCEPT !.shutdownAt = "joinDecomp",
                                  !.mQuitting = TRUE,
                                  !.decompAt = Notified(decompAt)]
    /\ UNCHANGED <<meshVars, mUploads>>

\* LLPhysicsDecomp::shutdown, 'while (!isStopped()) apr_sleep(10);' has ended
\* and LLMeshRepository::shutdown returns.
shutdownReturns ==
    /\ shutdownAt = "joinDecomp"
    /\ decompAt = "stopped"
    /\ exiting' = [exiting EXCEPT !.shutdownAt = "returned"]
    /\ UNCHANGED <<meshVars, mUploads>>

\* The two workers.
WorkerStep ==
    \/ RepoTest
    \/ RepoWait
    \/ RepoPass
    \/ DecompTest
    \/ DecompWait
    \/ DecompWork

\* The main thread once it is in LLMeshRepository::shutdown.
ShutdownStep ==
    \/ shutdownJoinRepo
    \/ shutdownDecomp
    \/ shutdownReturns

\* The threads that take part in the shutdown.
NextShutdown ==
    \/ WorkerStep
    \/ FrameSignal
    \/ submitRequest
    \/ SpuriousWakeup
    \/ setQuitting
    \/ shutdownCleanup
    \/ ShutdownStep

\* Every thread that can run does run: the workers, and the main thread inside
\* shutdown. Nothing obliges a wait() to return unsignalled.
SpecShutdown ==
    /\ Init
    /\ [][NextShutdown]_vars
    /\ WF_vars(RepoTest) /\ WF_vars(RepoWait) /\ WF_vars(RepoPass)
    /\ WF_vars(DecompTest) /\ WF_vars(DecompWait) /\ WF_vars(DecompWork)
    /\ WF_vars(ShutdownStep)

\* ------------------------------------------------------------------- uploads
\* What the server may answer to a fee request or an upload: an error status,
\* a body in the expected state ("upload" for a fee request, "complete" for an
\* upload), a body in any other state.
UploadResponses == {"error", "expected", "other"}

\* LLMeshRepository::uploadModel followed by LLMeshRepository::update: a new
\* LLMeshUploadThread is started. url says whether upload_url is non-empty.
uploadModel(do_upload, url) ==
    /\ shutdownAt = "running"
    /\ Len(mUploads) < MaxUploadThreads
    /\ mUploads' = Append(mUploads,
                          [mDoUpload |-> do_upload, mWholeModelUploadURL |-> url,
                           at |-> "run", mFinished |-> FALSE, mDiscarded |-> FALSE,
                           callbacks |-> <<>>])
    /\ UNCHANGED <<meshVars, exitVars>>

\* LLMeshUploadThread::run: doWholeModelUpload or requestWholeModelFee up to
\* the first mHttpRequest->update(0). Without an upload URL, or when the POST
\* cannot be issued, the function only logs and returns.
UploadRun(i, issue) ==
    /\ i \in DOMAIN mUploads
    /\ mUploads[i].at = "run"
    /\ LET t == mUploads[i]
           posted == /\ t.mDoUpload => t.mWholeModelUploadURL
                     /\ issue = "issued"
       IN  mUploads' = [mUploads EXCEPT ![i].at = IF posted THEN "poll" ELSE "stopped"]
    /\ UNCHANGED <<meshVars, exitVars>>

\* The observer's function LLMeshUploadThread::onCompleted calls.
Callback(do_upload, resp) ==
    IF do_upload
    THEN IF resp = "expected" THEN "onModelUploadSuccess" ELSE "onModelUploadFailure"
    ELSE IF resp = "expected" THEN "onModelPhysicsFeeReceived"
         ELSE "setModelPhysicsFeeErrorStatus"

\* LLMeshUploadThread::onCompleted, called from mHttpRequest->update(0) in the
\* polling loop: mFinished, the observer's callback and, for a completed
\* upload, LLMeshRepository::updateInventory.
UploadCompleted(i, resp) ==
    /\ i \in DOMAIN mUploads
    /\ mUploads[i].at = "poll"
    /\ ~mUploads[i].mFinished
    /\ LET t == mUploads[i]
           stored == t.mDoUpload /\ resp = "expected"
       IN  /\ stored => mInventoryQ < MaxUploads /\ mutex["mMeshMutex"].owner = "none"
           /\ mInventoryQ' = IF stored THEN mInventoryQ + 1 ELSE mInventoryQ
           /\ mUploads' =
                  [mUploads EXCEPT
                     ![i].mFinished = TRUE,
                     ![i].mWholeModelUploadURL =
                         IF t.mDoUpload THEN @ ELSE resp = "expected",
                     ![i].callbacks = Append(@, Callback(t.mDoUpload, resp))]
    /\ UNCHANGED <<asset, calls, refusals, registryVars, queueVars, completionVars,
                   decompVars, mMeshHeader, mPendingLOD, mHttpRequestSet,
                   sRequestHighWater, runPc, incomplete, poolTasks, cache, lodLoaded,
                   notified, lastResponse, mutex, lockOps, hold_offs, exitVars>>

\* The polling loop 'while (!LLApp::isExiting() && !finished() &&
\* !isDiscarded())' ends and run() returns.
UploadStops(i) ==
    /\ i \in DOMAIN mUploads
    /\ mUploads[i].at = "poll"
    /\ isExiting \/ mUploads[i].mFinished \/ mUploads[i].mDiscarded
    /\ mUploads' = [mUploads EXCEPT ![i].at = "stopped"]
    /\ UNCHANGED <<meshVars, exitVars>>

\* The viewer that asks for fees and uploads models and may be told to quit.
NextUploads ==
    \/ \E do_upload \in BOOLEAN, url \in BOOLEAN : uploadModel(do_upload, url)
    \/ \E i \in 1 .. MaxUploadThreads, issue \in {"issued", "refused"} : UploadRun(i, issue)
    \/ \E i \in 1 .. MaxUploadThreads, resp \in UploadResponses : UploadCompleted(i, resp)
    \/ \E i \in 1 .. MaxUploadThreads : UploadStops(i)
    \/ setQuitting
    \/ shutdownCleanup

SpecUploads == Init /\ [][NextUploads]_vars

\* ------------------------------------------------------------------ progress
\* One object asks for LODs; the region may have no capability URL.
NextLive ==
    \/ \E id \in MeshIds, lod \in 0 .. MaxReqLod :
          loadMeshWithin(MaxLiveCalls, 1, id, lod)
    \/ \E sel \in DispatchOrders(HighWaterHigh), match \in Matches({1}) :
          notifyLoadedMeshes(HighWaterHigh, sel, match)
    \/ Pipeline({"issued", "nourl"}, Responses)

\* notifyLoadedMeshes keeps being called, every issued request completes, the
\* pool runs its tasks, the worker keeps making passes, and the retry timer of
\* a request set aside expires.
Progress ==
    /\ SF_vars(\E sel \in DispatchOrders(HighWaterHigh), match \in Matches({1}) :
                  notifyLoadedMeshes(HighWaterHigh, sel, match))
    /\ SF_vars(\E h \in BagToSet(mHttpRequestSet), resp \in Responses :
                  onCompletedHeader(h, resp))
    /\ SF_vars(\E h \in BagToSet(mHttpRequestSet), resp \in Responses :
                  onCompletedLOD(h, resp))
    /\ SF_vars(\E h \in BagToSet(mHttpRequestSet), resp \in Responses :
                  onCompletedSkin(h, resp))
    /\ SF_vars(\E t \in BagToSet(poolTasks) :
                  PoolParse(t) \/ PoolFlag(t) \/ PoolWrite(t) \/ PoolCacheParse(t))
    /\ WF_vars(RunUpdateDone \/ RunSkinDone \/ RunLODDone \/ RunHeaderDone)
    /\ SF_vars(\E issue \in {"issued", "nourl"} : RunSkinStep(TRUE, issue))
    /\ SF_vars(\E issue \in {"issued", "nourl"} : RunLODStep(TRUE, issue))
    /\ SF_vars(\E issue \in {"issued", "nourl"} : RunHeaderStep(TRUE, issue))

SpecLive == Init /\ [][NextLive]_vars /\ Progress

\* ------------------------------------------------------ pending LOD requests
\* The server may hold a mesh without LOD 1.
InitPending == ConstructedFrom({AssetOneLod, AssetLarge, AssetNoLods}) /\ cache = EmptyMap

\* One object asks for LODs before the header is known.
NextPending ==
    \/ \E id \in MeshIds, lod \in 0 .. MaxReqLod :
          loadMeshWithin(MaxPendingCalls, 1, id, lod)
    \/ \E sel \in DispatchOrders(HighWaterHigh), match \in Matches({1}) :
          notifyLoadedMeshes(HighWaterHigh, sel, match)
    \/ Pipeline({"issued"}, Responses)

SpecPending == InitPending /\ [][NextPending]_vars

\* -------------------------------------------------- handlers destroyed unprocessed
\* A step of the worker in the given loop whose HTTP issue was refused: the
\* handler it made is destroyed without having been processed.
RefusedIn(loop) == runPc = loop /\ refusals' = refusals + 1

\* C22: a header or LOD handler destroyed unprocessed puts a fresh request at
\* the back of its source queue when the viewer is not exiting and puts nothing
\* there when it is; a skin, decomposition or physics shape handler destroyed
\* unprocessed puts nothing into its source container.
C22_DestroyedHandlerReenqueues ==
    [][/\ RefusedIn("header") =>
             mHeaderReqQ' = IF isExiting THEN Tail(mHeaderReqQ)
                            ELSE Append(Tail(mHeaderReqQ),
                                        HeaderRequest(Head(mHeaderReqQ).mId))
       /\ RefusedIn("lod") =>
             mLODReqQ' = IF isExiting THEN Tail(mLODReqQ)
                         ELSE Append(Tail(mLODReqQ),
                                     LODRequest(Head(mLODReqQ).mId, Head(mLODReqQ).mLOD))
       /\ RefusedIn("skin") => mSkinRequests' = Tail(mSkinRequests)
       /\ RefusedIn("decomposition") =>
             /\ mDecompositionRequests' \subseteq mDecompositionRequests
             /\ Cardinality(mDecompositionRequests') =
                    Cardinality(mDecompositionRequests) - 1
       /\ RefusedIn("physics") =>
             /\ mPhysicsShapeRequests' \subseteq mPhysicsShapeRequests
             /\ Cardinality(mPhysicsShapeRequests') =
                    Cardinality(mPhysicsShapeRequests) - 1]_vars

\* The header request was refused while the viewer was exiting: the request
\* waits for its retry, no fresh copy is queued, and no copy went anywhere else.
C22_HeaderRefusedWhileExiting ==
    /\ isExiting
    /\ refusals = 1
    /\ runPc = "header"
    /\ mHeaderReqQ = <<>>
    /\ Len(incomplete) = 1
    /\ mHttpRequestSet = EmptyBag
    /\ poolTasks = EmptyBag
    /\ mMeshHeader = EmptyMap

\* ------------------------------------------------------------ shutdown returns
\* C23: once LLMeshRepository::shutdown has been entered, both workers stop and
\* the call returns.
C23_ShutdownReturns == (shutdownAt # "running") ~> (shutdownAt = "returned")

\* ------------------------------------------------------------ upload callbacks
\* C24: a fee-request run or upload run that has ended has called its observer
\* exactly once.
C24_OneCallbackPerRun ==
    \A i \in DOMAIN mUploads :
        mUploads[i].at = "stopped" => Len(mUploads[i].callbacks) = 1

\* ------------------------------------------------------- registered objects
\* Object 1 waits in the loading table for a LOD of a mesh.
Waits1(id, lod) ==
    /\ <<id, lod>> \in DOMAIN mLoadingMeshes
    /\ 1 \in SeqToSet(mLoadingMeshes[<<id, lod>>])

\* C25: an object registered through loadMesh for a LOD of a mesh is
\* eventually notified (loaded or unavailable), which takes it out of the
\* loading table.
C25_RegisteredEventuallyNotified ==
    \A id \in MeshIds, lod \in Lods : Waits1(id, lod) ~> ~Waits1(id, lod)

\* ------------------------------------------------- pending LODs at the header
\* The step removes the pending-LOD entry of id: a header for id has landed.
HeaderLands(id) == id \in DOMAIN mPendingLOD /\ id \notin DOMAIN mPendingLOD'

\* The step puts a completion for (id, lod) into mLoadedQ or mUnavailableQ, or
\* a LOD request for it into mLODReqQ.
Served(id, lod) ==
    \/ \E i \in DOMAIN mLoadedQ' :
          i > Len(mLoadedQ) /\ <<mLoadedQ'[i].mId, mLoadedQ'[i].mLOD>> = <<id, lod>>
    \/ \E i \in DOMAIN mUnavailableQ' :
          /\ i > Len(mUnavailableQ)
          /\ <<mUnavailableQ'[i].mId, mUnavailableQ'[i].mLOD>> = <<id, lod>>
    \/ CountOf(mLODReqQ', LODRequest(id, lod)) > CountOf(mLODReqQ, LODRequest(id, lod))

\* C26: when a header lands, the pending entry is removed and every LOD with a
\* positive pending count is delivered in that step (a completion is queued
\* for it) or enqueued as a LOD request.
C26_PendingLodServedOrQueued ==
    [][\A id \in MeshIds, lod \in Lods :
          (HeaderLands(id) /\ mPendingLOD[id][lod] > 0) => Served(id, lod)]_vars

\* ------------------------------------------------------- failure at the limit
\* The attempt for req in this step failed: the fetch found no header for the
\* mesh or the HTTP layer refused, and req was not merely set aside because its
\* timer is running.
AttemptFailed(req) ==
    /\ req \notin SeqToSet(incomplete')
    /\ ~hasHeader(req.mId) \/ refusals' = refusals + 1

\* The step is a turn of one of the worker's loops: the worker stays in its
\* loop, the main thread registers, delivers and hands over nothing, no
\* handler completes and no pool task ends.
WorkerTurn ==
    /\ runPc' = runPc
    /\ calls' = calls
    /\ mLoadingMeshes' = mLoadingMeshes
    /\ notified' = notified
    /\ sRequestHighWater' = sRequestHighWater
    /\ Len(mLoadedQ') >= Len(mLoadedQ)
    /\ Len(mUnavailableQ') >= Len(mUnavailableQ)
    /\ Len(mSkinInfoQ') >= Len(mSkinInfoQ)
    /\ Len(mSkinUnavailableQ') >= Len(mSkinUnavailableQ)
    /\ Len(mDecompositionQ') >= Len(mDecompositionQ)
    /\ mPendingRequests' = mPendingRequests
    /\ mPendingDecompositionRequests' = mPendingDecompositionRequests
    /\ mPendingPhysicsShapeRequests' = mPendingPhysicsShapeRequests
    /\ \A h \in BagToSet(mHttpRequestSet) : ~Completes(h)
    /\ \A t \in BagToSet(poolTasks) : CopiesIn(t, poolTasks') >= CopiesIn(t, poolTasks)

\* The request the worker takes from its source in this step, as a set.
Taken ==
    IF ~WorkerTurn THEN {}
    ELSE IF runPc = "skin" /\ mSkinRequests # <<>> THEN {Head(mSkinRequests)}
    ELSE IF runPc = "lod" /\ mLODReqQ # <<>> THEN {Head(mLODReqQ)}
    ELSE IF runPc = "header" /\ mHeaderReqQ # <<>> THEN {Head(mHeaderReqQ)}
    ELSE IF runPc = "decomposition"
    THEN mDecompositionRequests \ mDecompositionRequests'
    ELSE IF runPc = "physics"
    THEN mPhysicsShapeRequests \ mPhysicsShapeRequests'
    ELSE {}

\* C27: in each request source, a request whose attempt fails when it cannot
\* be retried any more is pushed to an unavailable queue.
C27_FailureAtLimitReported ==
    [][\A req \in Taken :
          (AttemptFailed(req) /\ ~canRetry(req)) =>
              \/ Len(mUnavailableQ') > Len(mUnavailableQ)
              \/ Len(mSkinUnavailableQ') > Len(mSkinUnavailableQ)]_vars

\* ------------------------------------------------------ pending-LOD entries
\* C28: an identifier has an entry in mPendingLOD only while a header request
\* for it is queued, set aside for the end of the header loop, or in flight.
C28_PendingOnlyWhileHeaderFetched ==
    \A id \in DOMAIN mPendingLOD : HeaderFetches(id) > 0

\* ----------------------------------------------------------- refused requests
\* C29: when the HTTP layer refuses a header or LOD request, the request is
\* kept exactly once, with its retry count incremented (it waits in the loop's
\* list for the end of the loop), and no copy with a fresh retry count enters
\* the source queue.
C29_RefusedRequestKeptOnce ==
    [][/\ RefusedIn("header") =>
             /\ mHeaderReqQ' = Tail(mHeaderReqQ)
             /\ incomplete' = <<updateTime(Head(mHeaderReqQ))>> \o incomplete
       /\ RefusedIn("lod") =>
             /\ mLODReqQ' = Tail(mLODReqQ)
             /\ incomplete' = <<updateTime(Head(mLODReqQ))>> \o incomplete]_vars

\* -------------------------------------------------------------- pass ends
\* C30: every turn of the LOD loop and of the header loop leaves its source
\* queue one request shorter: a request is attempted at most once in a pass,
\* and the pass ends whatever the HTTP layer answers.
C30_EveryTurnShortensQueue ==
    [][\A req \in Taken :
          /\ runPc = "lod" => Len(mLODReqQ') = Len(mLODReqQ) - 1
          /\ runPc = "header" => Len(mHeaderReqQ') = Len(mHeaderReqQ) - 1]_vars

\* ------------------------------------------- accesses to the request queues
\* The worker's request queues and one insertion into or removal from one of
\* them, as an operation of a code path next to its lock operations.
WorkerQueues ==
    {"mSkinRequests", "mLODReqQ", "mHeaderReqQ", "mDecompositionRequests",
     "mPhysicsShapeRequests"}
QueueOp(op, q) == [op |-> op, m |-> q]
\* LLMutexLock locker(mMutex) around one push.
LockedPush(q) ==
    <<LockOp("lock", "mMutex"), QueueOp("push", q), LockOp("unlock", "mMutex")>>

\* n times the operations ops.
RECURSIVE Repeat(_, _)
Repeat(ops, n) == IF n <= 0 THEN <<>> ELSE ops \o Repeat(ops, n - 1)

\* One turn of a dispatch loop of run(): the request is popped between
\* mMutex->lock() and mMutex->unlock(), and the fetch looks the header up under
\* mHeaderMutex.
RunTurnOps(q) ==
    <<LockOp("lock", "mMutex"), QueueOp("pop", q), LockOp("unlock", "mMutex")>>
    \o Scope("mHeaderMutex")
\* The end of a dispatch loop with requests to put back: one LLMutexLock
\* locker(mMutex) around all the pushes.
RunRequeueOps(q, n) ==
    <<LockOp("lock", "mMutex")>> \o Repeat(<<QueueOp("push", q)>>, n)
    \o <<LockOp("unlock", "mMutex")>>

\* headerReceived for the header handler h: the header is stored under
\* mHeaderMutex; with a skin, mLoadingSkins is marked under mMeshMutex and the
\* skin request is pushed once that lock is gone; the pending LODs are taken
\* under mPendingMutex and each one that is not served is pushed under mMutex.
headerReceivedOps(h) ==
    LET hr == headerReceived(h.mId, Min(h.mRequestedBytes, asset[h.mId].total), "http", 0)
        a == asset[h.mId]
        stored == hr.hdr[h.mId].mHeaderSize > 0
        has_skin == stored /\ a.skin_offset >= 0 /\ a.skin_size > 0
    IN  Scope("mHeaderMutex")
        \o (IF has_skin THEN Scope("mMeshMutex") ELSE <<>>)
        \o Repeat(<<QueueOp("push", "mSkinRequests")>>,
                  Len(hr.sreq) - Len(mSkinRequests))
        \o Scope("mPendingMutex")
        \o Repeat(LockedPush("mLODReqQ"), Len(hr.lq) - Len(mLODReqQ))

\* The task of fetchMeshLOD / fetchMeshSkinInfo whose cached bytes do not
\* parse: the bits are cleared under mHeaderMutex and the request is pushed
\* under mMutex.
CacheMismatchOps(t) ==
    IF Parses(t.content) THEN <<>>
    ELSE Scope("mHeaderMutex")
         \o LockedPush(IF IsLodTask(t) THEN "mLODReqQ" ELSE "mSkinRequests")

\* loadMeshLOD / loadMeshSkinInfo for the requests the dispatch loop of
\* notifyLoadedMeshes hands over, with their pushes.
RECURSIVE DispatchOps(_, _, _, _)
DispatchOps(q, P, sel, i) ==
    IF i > Len(sel) THEN <<>>
    ELSE LET req == P[sel[i]]
             q2 == IF req.type = "lod" THEN loadMeshLOD(q, req.mId, req.mLOD)
                   ELSE loadMeshSkinInfo(q, req.mId)
             ops == IF req.type # "lod" THEN <<QueueOp("push", "mSkinRequests")>>
                    ELSE Scope("mHeaderMutex") \o
                         (IF hasHeader(req.mId) THEN LockedPush("mLODReqQ")
                          ELSE <<LockOp("lock", "mPendingMutex")>> \o
                               (IF req.mId \in DOMAIN q.p THEN <<>>
                                ELSE LockedPush("mHeaderReqQ")) \o
                               <<LockOp("unlock", "mPendingMutex")>>)
         IN  ops \o DispatchOps(q2, P, sel, i + 1)

\* notifyLoadedMeshes with its four locks: the dispatch loop, then
\* loadMeshDecomposition and loadMeshPhysicsShape for every pending request,
\* then the locks go out of scope.
notifyLoadedMeshesOps(mark, sel, match) ==
    /\ lockOps["main"] = <<>>
    /\ mInventoryQ = 0
    /\ TryLocksSucceed
    /\ notifyLoadedMeshesLocked(mark, sel, match)
    /\ hold_offs' = 0
    /\ mutex' = [m \in AllMutexes |->
                    IF m \in TryLocked THEN [owner |-> "main", count |-> 1] ELSE mutex[m]]
    /\ lockOps' = [lockOps EXCEPT !["main"] =
                       DispatchOps(Queues, mPendingRequests,
                                   SubSeq(sel, 1, Dispatched(mark)), 1)
                       \o Repeat(<<QueueOp("push", "mDecompositionRequests")>>,
                                 Len(mPendingDecompositionRequests))
                       \o Repeat(<<QueueOp("push", "mPhysicsShapeRequests")>>,
                                 Len(mPendingPhysicsShapeRequests))
                       \o ReleaseTryLocks]
    /\ UNCHANGED mInventoryQ

\* The request queue the loop of run() at position pc works on.
LoopQueue(pc) ==
    CASE pc = "skin" -> "mSkinRequests"
      [] pc = "lod" -> "mLODReqQ"
      [] pc = "header" -> "mHeaderReqQ"
      [] pc = "decomposition" -> "mDecompositionRequests"
      [] OTHER -> "mPhysicsShapeRequests"
LoopHasRequest ==
    \/ runPc = "skin" /\ mSkinRequests # <<>>
    \/ runPc = "lod" /\ mLODReqQ # <<>>
    \/ runPc = "header" /\ mHeaderReqQ # <<>>
    \/ runPc = "decomposition" /\ mDecompositionRequests # {}
    \/ runPc = "physics" /\ mPhysicsShapeRequests # {}

\* The code paths with queue accesses thread t may enter in the current state.
QueuePaths(t) ==
    IF t = "repo"
    THEN (IF LoopHasRequest THEN {RunTurnOps(LoopQueue(runPc))} ELSE {})
         \cup
         (IF runPc # "update" /\ incomplete # <<>>
          THEN {RunRequeueOps(LoopQueue(runPc), Len(incomplete))} ELSE {})
         \cup
         (IF runPc = "update"
          THEN {headerReceivedOps(h) :
                   h \in {x \in BagToSet(mHttpRequestSet) : x.kind = "header"}}
          ELSE {})
    ELSE IF t = "pool"
    THEN {CacheMismatchOps(x) :
             x \in {y \in BagToSet(poolTasks) : y.kind \in {"lodCache", "skinCache"}}}
         \ {<<>>}
    ELSE {}

\* Thread t enters a code path.
EnterOps(t) ==
    /\ lockOps[t] = <<>>
    /\ \E path \in QueuePaths(t) : lockOps' = [lockOps EXCEPT ![t] = path]
    /\ UNCHANGED <<dataVars, mutex, hold_offs, mInventoryQ>>

\* Thread t does the next operation of its code path: a lock, an unlock, or
\* an access to a queue, which no mutex stops.
OpStep(t) ==
    /\ lockOps[t] # <<>>
    /\ LET o == Head(lockOps[t])
       IN  CASE o.op = "lock" -> MayLock(t, o.m) /\ mutex' = Locked(mutex, t, o.m)
             [] o.op = "unlock" -> mutex' = Unlocked(mutex, o.m)
             [] OTHER -> mutex' = mutex
    /\ lockOps' = [lockOps EXCEPT ![t] = Tail(@)]
    /\ UNCHANGED <<dataVars, hold_offs, mInventoryQ>>

\* The viewer with the accesses to the request queues: one object asks for a
\* LOD, a decomposition and a physics shape.
NextQueues ==
    \/ \E id \in MeshIds, lod \in 0 .. MaxReqLod :
          /\ lockOps["main"] = <<>>
          /\ MayLock("main", "mMeshMutex")
          /\ calls < MaxQueueCalls
          /\ loadMesh(1, id, lod)
    \/ \E id \in MeshIds :
          lockOps["main"] = <<>> /\ calls < MaxQueueCalls /\ getDecomposition(id)
    \/ \E id \in MeshIds :
          lockOps["main"] = <<>> /\ calls < MaxQueueCalls /\ fetchPhysicsShape(id)
    \/ \E sel \in DispatchOrders(HighWaterHigh), match \in Matches({1}) :
          notifyLoadedMeshesOps(HighWaterHigh, sel, match)
    \/ \E t \in Threads : EnterOps(t)
    \/ \E t \in Threads : OpStep(t)
    \/ /\ lockOps["repo"] = <<>>
       /\ lockOps["pool"] = <<>>
       /\ Pipeline({"issued"}, {"ok"})
    \/ /\ lockOps["repo"] = <<>>
       /\ PhysicsPipeline({"issued"}, {"ok"})

SpecQueues == Init /\ [][NextQueues]_vars

\* C31: a thread that is about to insert into or remove from one of the
\* worker's request queues (skin, LOD, header, decomposition, physics shape)
\* holds the worker mutex mMutex.
C31_QueueAccessUnderWorkerMutex ==
    \A t \in Threads :
        (lockOps[t] # <<>> /\ Head(lockOps[t]).op \in {"push", "pop"}
         /\ Head(lockOps[t]).m \in WorkerQueues)
            => mutex["mMutex"].owner = t

\* ------------------------------------------------------------ the skin maps
\* An operation of a code path on the worker's skin map or on a completion
\* queue, for the skin info or the volume of mesh id.
SkinOp(op, id) == [op |-> op, m |-> id]
SkinMapOps == {"find", "insert", "erase"}

\* LLMeshRepoThread::lodReceived for bytes that parse: the skin info is looked
\* up in the worker's map under mSkinMapMutex, the volume is pushed to mLoadedQ
\* under mLoadedMutex.
lodReceivedOps(id) ==
    <<LockOp("lock", "mSkinMapMutex"), SkinOp("find", id),
      LockOp("unlock", "mSkinMapMutex"),
      LockOp("lock", "mLoadedMutex"), SkinOp("pushLoaded", id),
      LockOp("unlock", "mLoadedMutex")>>

\* LLMeshRepoThread::skinInfoReceived for bytes that parse: a copy of the skin
\* info is stored in the worker's map under mSkinMapMutex, the skin info is
\* pushed to mSkinInfoQ under mLoadedMutex.
skinInfoReceivedOps(id) ==
    <<LockOp("lock", "mSkinMapMutex"), SkinOp("insert", id),
      LockOp("unlock", "mSkinMapMutex"),
      LockOp("lock", "mLoadedMutex"), SkinOp("pushSkin", id),
      LockOp("unlock", "mLoadedMutex")>>

\* The closure the eviction posts to the worker: the statement
\* 'LLMutexLock(mThread->mSkinMapMutex);' makes a temporary that locks the
\* mutex and unlocks it again when the statement ends, then the entry is erased.
EraseClosureOps(id) ==
    <<LockOp("lock", "mSkinMapMutex"), LockOp("unlock", "mSkinMapMutex"),
      SkinOp("erase", id)>>

\* A pool thread takes a task that parses LOD bytes or skin bytes; the repo
\* worker parses skin bytes itself (headerReceived, a refused post).
SkinReceives(t) ==
    /\ lockOps[t] = <<>>
    /\ t \in {"repo", "pool"}
    /\ \E id \in MeshIds :
          \/ /\ t = "pool"
             /\ Len(mLoadedQ) < MaxSkinQueue
             /\ lockOps' = [lockOps EXCEPT ![t] = lodReceivedOps(id)]
          \/ /\ Len(mSkinInfoQ) < MaxSkinQueue
             /\ lockOps' = [lockOps EXCEPT ![t] = skinInfoReceivedOps(id)]
    /\ UNCHANGED <<dataVars, mutex, hold_offs, mInventoryQ>>

\* mWorkQueue.runFor in LLMeshRepoThread::run: the worker takes the next closure.
RunClosure ==
    /\ lockOps["repo"] = <<>>
    /\ mWorkQueue # <<>>
    /\ lockOps' = [lockOps EXCEPT !["repo"] = EraseClosureOps(Head(mWorkQueue))]
    /\ skins' = [skins EXCEPT !.mWorkQueue = Tail(@)]
    /\ UNCHANGED <<asset, calls, refusals, registryVars, queueVars, completionVars,
                   decompVars, mMeshHeader, mPendingLOD, mHttpRequestSet,
                   sRequestHighWater, runPc, incomplete, poolTasks, cache, lodLoaded,
                   notified, lastResponse, mutex, hold_offs, mInventoryQ, exiting, heap, decomposer,
                   mUploads>>

\* Thread t does the next operation of its code path.
SkinOpStep(t) ==
    /\ lockOps[t] # <<>>
    /\ LET o == Head(lockOps[t])
       IN  /\ CASE o.op = "lock" -> MayLock(t, o.m) /\ mutex' = Locked(mutex, t, o.m)
                [] o.op = "unlock" -> mutex' = Unlocked(mutex, o.m)
                [] OTHER -> mutex' = mutex
           /\ skins' = CASE o.op = "insert" -> [skins EXCEPT !.mSkinMap = @ \cup {o.m}]
                         [] o.op = "erase" -> [skins EXCEPT !.mSkinMap = @ \ {o.m}]
                         [] OTHER -> skins
           /\ mSkinInfoQ' = IF o.op = "pushSkin" THEN Append(mSkinInfoQ, o.m)
                            ELSE mSkinInfoQ
           /\ mLoadedQ' = IF o.op = "pushLoaded"
                          THEN Append(mLoadedQ, [mId |-> o.m, mLOD |-> 0]) ELSE mLoadedQ
    /\ lockOps' = [lockOps EXCEPT ![t] = Tail(@)]
    /\ UNCHANGED <<asset, calls, refusals, registryVars, queueVars, mUnavailableQ,
                   mSkinUnavailableQ, decompVars, mMeshHeader, mPendingLOD,
                   mHttpRequestSet, sRequestHighWater, runPc, incomplete, poolTasks,
                   cache, lodLoaded, notified, lastResponse, hold_offs, mInventoryQ,
                   exiting, heap, decomposer, mUploads>>

\* An object takes or drops a reference to the skin info the registry holds
\* (vobj->notifySkinInfoLoaded keeps the pointer getSkinInfo or the
\* notification hands out).
HolderChanges(id) ==
    /\ id \in mSkinMap
    /\ skins' = [skins EXCEPT !.held = IF id \in @ THEN @ \ {id} ELSE @ \cup {id}]
    /\ UNCHANGED <<asset, calls, refusals, registryVars, queueVars, completionVars,
                   decompVars, mMeshHeader, mPendingLOD, mHttpRequestSet,
                   sRequestHighWater, runPc, incomplete, poolTasks, cache, lodLoaded,
                   notified, lastResponse, lockVars, exiting, heap, decomposer, mUploads>>

\* The identifiers the eviction erases from the registry's map, and the ones
\* whose closure it posts, in map order.
Evicted == {id \in mSkinMap : id \notin referenced}
RECURSIVE Closures(_)
Closures(ids) ==
    IF ids = {} THEN <<>>
    ELSE LET id == CHOOSE x \in ids : TRUE
         IN  <<id>> \o Closures(ids \ {id})
Posted == Closures(mSkinMap)

\* The skin eviction of LLMeshRepository::notifyLoadedMeshes, run when
\* mSkinInfoCullTimer has expired: every entry of mSkinMap with
\* getNumRefs() == 1 is erased, and for every entry of the map a closure that
\* erases the identifier from the worker's map is posted to mWorkQueue.
EvictSkins ==
    /\ mSkinMap # {}
    /\ Len(mWorkQueue) + Cardinality(mSkinMap) <= MaxWorkQueue
    /\ mSkinMap' = mSkinMap \ Evicted
    /\ skins' = [skins EXCEPT !.mWorkQueue = @ \o Posted]
    /\ UNCHANGED <<asset, calls, refusals, mLoadingMeshes, mLoadingSkins,
                   mPendingRequests, queueVars, completionVars, decompVars, mMeshHeader,
                   mPendingLOD, mHttpRequestSet, sRequestHighWater, runPc, incomplete,
                   poolTasks, cache, lodLoaded, notified, lastResponse, lockVars,
                   exiting, heap, decomposer, mUploads>>

\* The viewer with the skin maps: skins and LODs arrive, objects take and drop
\* skin infos, the registry delivers completions and evicts.
NextSkins ==
    \/ \E t \in Threads : SkinReceives(t)
    \/ RunClosure
    \/ \E t \in Threads : SkinOpStep(t)
    \/ \E id \in MeshIds : HolderChanges(id)
    \/ EvictSkins
    \/ \E sel \in DispatchOrders(HighWaterHigh), match \in Matches({1}) :
          /\ MayLock("main", "mLoadedMutex")
          /\ mLoadedQ # <<>> \/ mSkinInfoQ # <<>>
          /\ notifyLoadedMeshes(HighWaterHigh, sel, match)

SpecSkins == Init /\ [][NextSkins]_vars

\* C32: a thread that is about to look up, insert into or erase from the
\* worker's copy of the skin map holds the skin-map mutex mSkinMapMutex.
C32_SkinMapAccessUnderMutex ==
    \A t \in Threads :
        (lockOps[t] # <<>> /\ Head(lockOps[t]).op \in SkinMapOps)
            => mutex["mSkinMapMutex"].owner = t

\* C40: no step removes from the registry's skin map or from the worker's copy
\* an entry whose skin info still has an external holder; the eviction and the
\* closures it posts remove only entries without one.
C40_EvictionKeepsHeldEntries ==
    [][\A id \in referenced :
          /\ id \in mSkinMap => id \in mSkinMap'
          /\ id \in mThread_mSkinMap => id \in mThread_mSkinMap']_vars

\* ---------------------------------------------------- the six mutexes
\* lodReceived and skinInfoReceived: mSkinMapMutex around the access to the
\* worker's skin map, then mLoadedMutex around the push of the completion.
lodReceivedLocks == Scope("mSkinMapMutex") \o Scope("mLoadedMutex")
skinInfoReceivedLocks == Scope("mSkinMapMutex") \o Scope("mLoadedMutex")
\* A failure path that pushes to mUnavailableQ or mSkinUnavailableQ.
UnavailableLocks == Scope("mLoadedMutex")

\* A pool task that would set the in-cache bit before it lets go of
\* mLoadedMutex: the nesting that the code does not have.
processLodLocksNested(t) ==
    Scope("mSkinMapMutex") \o
    <<LockOp("lock", "mLoadedMutex"), LockOp("lock", "mHeaderMutex"),
      LockOp("unlock", "mHeaderMutex"), LockOp("unlock", "mLoadedMutex")>>

\* LLMeshLODHandler::processLod / LLMeshSkinInfoHandler::processSkin in a pool
\* task: the bytes are parsed and the completion pushed, then the in-cache bit
\* is set under mHeaderMutex; bytes that do not parse are reported unavailable.
processLodLocks(t) ==
    IF Parses(t.content) THEN lodReceivedLocks \o Scope("mHeaderMutex")
    ELSE UnavailableLocks
\* The task of fetchMeshLOD / fetchMeshSkinInfo for bytes read from the cache.
CacheTaskLocks(t) ==
    IF Parses(t.content) THEN lodReceivedLocks ELSE CacheMismatchLocks

\* LLMeshHandlerBase::onCompleted for the header handler h with a good body:
\* headerReceived stores the header under mHeaderMutex, marks the skin as
\* loading under mMeshMutex, parses a skin that lies in the bytes, takes the
\* pending LODs under mPendingMutex and serves each from the bytes or queues it
\* under mMutex; processData then reads the header under mHeaderMutex and, if
\* the header is not usable, reports the LODs unavailable.
headerCompletedLocks(h) ==
    LET hr == headerReceived(h.mId, Min(h.mRequestedBytes, asset[h.mId].total), "http", 0)
        a == asset[h.mId]
        header == hr.hdr[h.mId]
        usable == header.mHeaderSize > 0 /\ ~header.m404
        has_skin == usable /\ a.skin_offset >= 0 /\ a.skin_size > 0
    IN  Scope("mHeaderMutex")
        \o (IF has_skin THEN Scope("mMeshMutex") ELSE <<>>)
        \o Repeat(skinInfoReceivedLocks, Len(hr.siq) - Len(mSkinInfoQ))
        \o Scope("mPendingMutex")
        \o Repeat(lodReceivedLocks, Len(hr.ldq) - Len(mLoadedQ))
        \o Repeat(Scope("mMutex"), Len(hr.lq) - Len(mLODReqQ))
        \o Scope("mHeaderMutex")
        \o (IF usable THEN <<>> ELSE UnavailableLocks)

\* A handler destroyed before its completion ran: ~LLMeshHeaderHandler queues
\* the header again under mMutex; ~LLMeshLODHandler calls loadMeshLOD, which
\* with the header queues the LOD under mMutex and without it locks
\* mPendingMutex and, for a new entry, mMutex inside it.
CancelledHandlerLocks(h) ==
    IF h.kind = "header" THEN {Scope("mMutex")}
    ELSE IF h.kind = "lod"
    THEN {Scope("mHeaderMutex") \o Scope("mMutex"),
          Scope("mHeaderMutex") \o
          <<LockOp("lock", "mPendingMutex"), LockOp("lock", "mMutex"),
            LockOp("unlock", "mMutex"), LockOp("unlock", "mPendingMutex")>>}
    ELSE {}

\* LLMeshRepoThread::notifyLoadedMeshes, called by the registry's
\* notifyLoadedMeshes while it holds its four locks: it waits for mLoadedMutex
\* for mLoadedQ and for mUnavailableQ, and tries it for the other queues.
WorkerNotifyLocks ==
    (IF mLoadedQ # <<>> THEN Scope("mLoadedMutex") ELSE <<>>)
    \o (IF mUnavailableQ # <<>> THEN Scope("mLoadedMutex") ELSE <<>>)
    \o (IF mSkinInfoQ # <<>> \/ mSkinUnavailableQ # <<>> \/ mDecompositionQ # <<>>
        THEN <<LockOp("trylock", "mLoadedMutex"), LockOp("unlock", "mLoadedMutex")>>
        ELSE <<>>)

\* notifyLoadedMeshes with its four locks and every lock operation that follows.
notifyLoadedMeshesAllLocks(mark, sel, match) ==
    /\ lockOps["main"] = <<>>
    /\ mInventoryQ = 0
    /\ TryLocksSucceed
    /\ notifyLoadedMeshesLocked(mark, sel, match)
    /\ hold_offs' = 0
    /\ mutex' = [m \in AllMutexes |->
                    IF m \in TryLocked THEN [owner |-> "main", count |-> 1] ELSE mutex[m]]
    /\ lockOps' = [lockOps EXCEPT !["main"] =
                       DispatchLocks(Queues, mPendingRequests,
                                     SubSeq(sel, 1, Dispatched(mark)), 1)
                       \o WorkerNotifyLocks \o ReleaseTryLocks]
    /\ UNCHANGED mInventoryQ

\* The code paths thread t may enter in the current state.
MutexPaths(t) ==
    IF t = "repo"
    THEN (IF \/ runPc = "skin" /\ mSkinRequests # <<>>
             \/ runPc = "lod" /\ mLODReqQ # <<>>
          THEN {RunTurnLocks} ELSE {})
         \cup
         (IF runPc = "header" /\ mHeaderReqQ # <<>> THEN {Scope("mMutex")} ELSE {})
         \cup
         (IF runPc = "update"
          THEN {headerCompletedLocks(h) :
                   h \in {x \in BagToSet(mHttpRequestSet) : x.kind = "header"}}
               \cup (IF mHttpRequestSet # EmptyBag THEN {UnavailableLocks} ELSE {})
               \cup UNION {CancelledHandlerLocks(h) : h \in BagToSet(mHttpRequestSet)}
          ELSE {})
    ELSE IF t = "pool"
    THEN {processLodLocks(x) :
             x \in {y \in BagToSet(poolTasks) : y.kind \in {"lod", "skin"}}}
         \cup
         {CacheTaskLocks(x) :
             x \in {y \in BagToSet(poolTasks) : y.kind \in {"lodCache", "skinCache"}}}
    ELSE {}

\* Thread t enters a code path.
EnterMutexPath(t) ==
    /\ lockOps[t] = <<>>
    /\ \E path \in MutexPaths(t) : lockOps' = [lockOps EXCEPT ![t] = path]
    /\ UNCHANGED <<dataVars, mutex, hold_offs, mInventoryQ>>

\* Thread t does the next lock operation of its code path. LLMutex::trylock
\* returns at once: without the mutex the block it guards, which ends with the
\* unlock, is skipped.
MutexStep(t) ==
    /\ lockOps[t] # <<>>
    /\ LET o == Head(lockOps[t])
           got == MayLock(t, o.m)
       IN  /\ o.op = "lock" => got
           /\ mutex' = IF o.op = "unlock" THEN Unlocked(mutex, o.m)
                       ELSE IF got THEN Locked(mutex, t, o.m) ELSE mutex
           /\ lockOps' = [lockOps EXCEPT ![t] =
                             IF o.op = "trylock" /\ ~got THEN Tail(Tail(@)) ELSE Tail(@)]
    /\ UNCHANGED <<dataVars, hold_offs, mInventoryQ>>

\* The viewer with all the lock operations of the three threads.
NextMutexes ==
    \/ \E id \in MeshIds, lod \in 0 .. MaxReqLod :
          /\ lockOps["main"] = <<>>
          /\ MayLock("main", "mMeshMutex")
          /\ calls < MaxMutexCalls
          /\ loadMesh(1, id, lod)
    \/ \E sel \in DispatchOrders(HighWaterHigh), match \in Matches({1}) :
          notifyLoadedMeshesAllLocks(HighWaterHigh, sel, match)
    \/ \E sel \in DispatchOrders(HighWaterHigh), match \in Matches({1}) :
          /\ lockOps["main"] = <<>>
          /\ mInventoryQ = 0
          /\ ~TryLocksSucceed
          /\ notifyLoadedMeshes(HighWaterHigh, sel, match)
    \/ \E t \in Threads : EnterMutexPath(t)
    \/ \E t \in Threads : MutexStep(t)
    \/ /\ lockOps["repo"] = <<>>
       /\ lockOps["pool"] = <<>>
       /\ Pipeline({"issued"}, BodyResponses)

SpecMutexes == Init /\ [][NextMutexes]_vars

\* Thread t is inside LLMutex::lock on a mutex that thread u owns.
Blocks(t, u) == \E m \in AllMutexes : Waits(t, m) /\ mutex[m].owner = u
\* The threads that t waits for, directly or through others.
BlockedBy(t) ==
    LET direct(S) == {u \in Threads : \E s \in S : Blocks(s, u)}
        one == direct({t})
        two == one \cup direct(one)
    IN  two \cup direct(two)

\* C33: no state is reached in which threads wait on each other's mutexes in a
\* circle (main, worker, header, pending, loaded and skin-map mutex), so every
\* wait for a mutex ends.
C33_NoCircularWait == \A t \in Threads : t \notin BlockedBy(t)

\* C33's case: the repo worker waits for a mutex the main thread holds while
\* the main thread, inside the worker's notifyLoadedMeshes with its four locks,
\* waits for mLoadedMutex, which a pool thread holds.
C33_MainWaitsWithFourLocks ==
    /\ Blocks("repo", "main")
    /\ Waits("main", "mLoadedMutex")
    /\ mutex["mLoadedMutex"].owner = "pool"

\* ------------------------------------------- byte buffers and the parse pool
\* new(std::nothrow) U8[n]: the buffers are numbered in the order of their
\* allocation and 0 is NULL; the table of deletes gets a new entry.
NewBuffer(alloc) == IF alloc THEN Len(deletes) + 1 ELSE 0
Allocated(d, alloc) == IF alloc THEN Append(d, 0) ELSE d
\* delete[] data; deleting NULL does nothing.
Delete(d, data) == IF data = 0 THEN d ELSE [d EXCEPT ![data] = @ + 1]

\* The answers of the transport to a body request: a body that parses, one that
\* does not, no body at all, a failed status, a range that misses the request.
CompletionResponses == {"ok", "corrupt", "empty", "fail", "badrange"}
\* What processData is given for an answer.
BodyContent(resp) == IF resp = "ok" THEN "data" ELSE resp

\* n entries for the request of t in mUnavailableQ or mSkinUnavailableQ.
ReportUnavailable(t, n) ==
    /\ mUnavailableQ' = IF IsLodTask(t)
                        THEN mUnavailableQ \o Repeat(<<[mId |-> t.mId, mLOD |-> t.mLOD]>>, n)
                        ELSE mUnavailableQ
    /\ mSkinUnavailableQ' = IF IsLodTask(t) THEN mSkinUnavailableQ
                            ELSE mSkinUnavailableQ \o Repeat(<<t.mId>>, n)

\* LLMeshLODHandler::processLod / LLMeshSkinInfoHandler::processSkin on the
\* bytes of t: the completion is pushed, the in-cache bit set, the preamble
\* rewritten and the bytes written; bytes that do not parse are reported.
processLod(t) ==
    /\ Received(t)
    /\ ReportUnavailable(t, IF Parses(t.content) THEN 0 ELSE 1)
    /\ LET fits == t.mId \in DOMAIN cache
                   /\ cache[t.mId].size >= t.mOffset + CACHE_PREAMBLE_SIZE + t.mRequestedBytes
           header == mMeshHeader[t.mId]
           already == IF IsLodTask(t) THEN header.mLodInCache[t.mLOD] ELSE header.mSkinInCache
           updated == IF IsLodTask(t) THEN [header EXCEPT !.mLodInCache[t.mLOD] = TRUE]
                      ELSE [header EXCEPT !.mSkinInCache = TRUE]
           flags == IF already THEN 0 ELSE getFlags(updated)
           flagged == IF hasHeader(t.mId) /\ flags > 0
                      THEN [cache EXCEPT ![t.mId].header_size = header.mHeaderSize,
                                         ![t.mId].flags = flags]
                      ELSE cache
       IN  IF Parses(t.content) /\ fits
           THEN /\ mMeshHeader' = IF hasHeader(t.mId) /\ ~already
                                  THEN [mMeshHeader EXCEPT ![t.mId] = updated]
                                  ELSE mMeshHeader
                /\ cache' = [flagged EXCEPT ![t.mId].written = @ \cup {Section(t)}]
           ELSE UNCHANGED <<mMeshHeader, cache>>
    /\ UNCHANGED queueVars

\* The body of the lambda of fetchMeshLOD / fetchMeshSkinInfo for bytes read
\* from the cache: parse them; if that fails mark every sub-section as missing,
\* rewrite the preamble and queue the request again.
CacheMismatch(t) ==
    /\ Received(t)
    /\ IF Parses(t.content)
       THEN UNCHANGED <<mMeshHeader, cache, mLODReqQ, mSkinRequests>>
       ELSE LET cleared == [mMeshHeader[t.mId] EXCEPT
                               !.mSkinInCache = FALSE,
                               !.mPhysicsConvexInCache = FALSE,
                               !.mPhysicsMeshInCache = FALSE,
                               !.mLodInCache = [l \in Lods |-> FALSE]]
            IN  /\ mMeshHeader' = IF hasHeader(t.mId)
                                  THEN [mMeshHeader EXCEPT ![t.mId] = cleared]
                                  ELSE mMeshHeader
                /\ cache' = IF hasHeader(t.mId) /\ cleared.mHeaderSize > 0
                            THEN [cache EXCEPT ![t.mId].header_size = cleared.mHeaderSize,
                                               ![t.mId].flags = getFlags(cleared)]
                            ELSE cache
                /\ mLODReqQ' = IF IsLodTask(t)
                               THEN Append(mLODReqQ, LODRequest(t.mId, t.mLOD)) ELSE mLODReqQ
                /\ mSkinRequests' = IF IsLodTask(t) THEN mSkinRequests
                                    ELSE Append(mSkinRequests, UUIDBasedRequest(t.mId))
    /\ UNCHANGED <<mHeaderReqQ, mUnavailableQ, mSkinUnavailableQ>>

\* A lambda that goes on with its work whatever the flag says: the variant the
\* test of the flag has to tell apart.
isShuttingDownIgnored == FALSE
\* LLMeshRepoThread::isShuttingDown() as the lambda reads it.
isShuttingDown == mShuttingDown

\* The handler keeps the ownership of the bytes unless the lambda was posted.
\* A handler that never gives the ownership away is the variant the single
\* delete has to tell apart.
mHasDataOwnershipKept(posted) == TRUE
mHasDataOwnership(posted) == ~posted

\* The variables a fetch, a completion or a lambda may write besides the heap.
bufferVars ==
    <<queueVars, completionVars, mMeshHeader, cache, lodLoaded>>

\* A lambda of the parse pool runs: with the shutdown flag set it deletes its
\* buffer and returns; otherwise it does its work and deletes the buffer.
RunLambda(t) ==
    /\ t \in posted_tasks
    /\ heap' = [heap EXCEPT !.tasks = @ \ {t},
                            !.deletes = Delete(@, t.data),
                            !.paths = IF isShuttingDown THEN <<"dropped">> ELSE <<"task">>]
    /\ IF isShuttingDown THEN UNCHANGED bufferVars
       ELSE IF t.kind \in {"lod", "skin"} THEN processLod(t)
       ELSE CacheMismatch(t)
    /\ UNCHANGED <<asset, lockVars, exiting, skins, decomposer, mUploads, decompVars, lastResponse,
                   notified, calls, refusals, registryVars, mPendingLOD, mHttpRequestSet,
                   sRequestHighWater, runPc, incomplete, poolTasks>>

\* LLMeshHandlerBase::onCompleted for a LOD or skin handler h: a failed status
\* goes to processFailure; a body whose range misses the request goes to
\* processFailure and to the exit; otherwise the bytes are copied to a new
\* buffer (a failed allocation calls processFailure and goes on) and
\* processData posts the lambda or, refused, calls processLod itself; the
\* buffer is deleted here if the handler still owns it.
onCompletedBody(h, resp, alloc, posted) ==
    /\ runPc = "update"
    /\ h \in BagToSet(mHttpRequestSet)
    /\ h.kind \in {"lod", "skin"}
    /\ Len(deletes) < MaxBuffers
    /\ mHttpRequestSet' = BagRemove(mHttpRequestSet, h)
    /\ lastResponse' = resp
    /\ LET data_size == IF resp = "empty" THEN 0 ELSE h.mRequestedBytes
           copied == data_size > 0 /\ alloc
           data == NewBuffer(copied)
           t == h @@ [content |-> BodyContent(resp), data |-> data]
       IN  IF resp \in {"fail", "badrange"}
           THEN /\ ReportUnavailable(t, 1)
                /\ heap' = [heap EXCEPT !.paths = <<"processFailure">>]
                /\ UNCHANGED <<queueVars, mLoadedQ, mSkinInfoQ, mMeshHeader, cache, lodLoaded>>
           ELSE IF data_size > 0 /\ ~alloc
           THEN \* processFailure, then processData with data = NULL and a size
                /\ ReportUnavailable(t, 2)
                /\ heap' = [heap EXCEPT !.paths = <<"processFailure", "processData">>]
                /\ UNCHANGED <<queueVars, mLoadedQ, mSkinInfoQ, mMeshHeader, cache, lodLoaded>>
           ELSE IF posted
           THEN /\ heap' = [heap EXCEPT
                               !.deletes = IF mHasDataOwnership(posted)
                                           THEN Delete(Allocated(@, copied), data)
                                           ELSE Allocated(@, copied),
                               !.tasks = @ \cup {t},
                               !.paths = <<"processData">>]
                /\ UNCHANGED bufferVars
           ELSE /\ processLod(t)
                /\ heap' = [heap EXCEPT
                               !.deletes = IF mHasDataOwnership(posted)
                                           THEN Delete(Allocated(@, copied), data)
                                           ELSE Allocated(@, copied),
                               !.paths = <<"processData">>]
    /\ UNCHANGED <<asset, lockVars, exiting, skins, decomposer, mUploads, decompVars, notified, calls,
                   refusals, registryVars, mPendingLOD, sRequestHighWater, runPc,
                   incomplete, poolTasks>>

\* fetchMeshLOD / fetchMeshSkinInfo get as far as the read of the cache file:
\* the header is known and usable, the sub-section is marked in-cache and the
\* file is long enough.
ReadsCache(kind, id, lod) ==
    /\ hasHeader(id)
    /\ LET header == mMeshHeader[id]
           offset == header.mHeaderSize
                     + (IF kind = "lod" THEN header.mLodOffset[lod] ELSE header.mSkinOffset)
           size == IF kind = "lod" THEN header.mLodSize[lod] ELSE header.mSkinSize
       IN  /\ header.mHeaderSize > 0
           /\ header.mVersion <= MAX_MESH_VERSION /\ offset >= 0 /\ size > 0
           /\ IF kind = "lod" THEN header.mLodInCache[lod] ELSE header.mSkinInCache
           /\ id \in DOMAIN cache
           /\ cache[id].size >= offset + CACHE_PREAMBLE_SIZE + size

\* One turn of the LOD or skin loop of run() with the buffer of the cache read:
\* a failed allocation reports the request; bytes that are all zero are deleted
\* and the request goes to the network; otherwise the lambda is posted or,
\* refused, the bytes are parsed here and deleted, and bytes that do not parse
\* send the request to the network.
FetchWithBuffer(kind, issue, alloc, posted) ==
    /\ runPc = kind
    /\ BelowHighWater
    /\ MayIssue(issue)
    /\ Len(deletes) < MaxBuffers
    /\ (IF kind = "lod" THEN mLODReqQ ELSE mSkinRequests) # <<>>
    /\ LET q == IF kind = "lod" THEN mLODReqQ ELSE mSkinRequests
           req == Head(q)
           rest == Tail(q)
           lod == IF kind = "lod" THEN req.mLOD ELSE -1
           f == IF kind = "lod" THEN fetchMeshLOD(req.mId, lod, issue)
                ELSE fetchMeshSkinInfo(req.mId, issue)
           reads == ReadsCache(kind, req.mId, lod)
           sec == IF kind = "lod" THEN <<"lod", lod>> ELSE <<"skin">>
           content == IF reads THEN CacheContent(cache[req.mId], sec, f.offset, f.size)
                      ELSE "zero"
           network == IF issue = "nourl" THEN "unavailable" ELSE issue
           way == IF ~reads THEN f.way
                  ELSE IF ~alloc THEN "nomem"
                  ELSE IF content = "zero" THEN network
                  ELSE IF posted THEN "cache"
                  ELSE IF Parses(content) THEN "inline"
                  ELSE network
           data == NewBuffer(reads /\ alloc)
           t == [kind |-> IF kind = "lod" THEN "lodCache" ELSE "skinCache",
                 mId |-> req.mId, mLOD |-> lod, mOffset |-> f.offset,
                 mRequestedBytes |-> f.size, content |-> content, data |-> data]
           failed == way \in {"noheader", "refused"}
           requeued == IF failed /\ canRetry(req) THEN <<updateTime(req)>> ELSE <<>>
           unavailable == IF way \in {"unavailable", "nomem"} \/ (failed /\ ~canRetry(req))
                          THEN 1 ELSE 0
       IN  /\ mLODReqQ' = IF kind # "lod" THEN mLODReqQ
                          ELSE IF way = "refused"
                          THEN DestroyedLODHandler(rest, req.mId, req.mLOD) ELSE rest
           /\ mSkinRequests' = IF kind = "lod" THEN mSkinRequests ELSE rest
           /\ incomplete' = IF kind = "lod" THEN requeued \o incomplete
                            ELSE incomplete \o requeued
           /\ ReportUnavailable(t, unavailable)
           /\ IF way = "inline"
              THEN Received(t)
              ELSE UNCHANGED <<mLoadedQ, lodLoaded, mSkinInfoQ>>
           /\ heap' = [heap EXCEPT
                          !.deletes = IF way = "cache" THEN Allocated(@, reads /\ alloc)
                                      ELSE Delete(Allocated(@, reads /\ alloc), data),
                          !.tasks = IF way = "cache" THEN @ \cup {t} ELSE @,
                          !.paths = <<way>>]
           /\ mHttpRequestSet' = IF way = "issued"
                                 THEN BagAdd(mHttpRequestSet,
                                         Handler(kind, req.mId, lod, f.offset, f.size))
                                 ELSE mHttpRequestSet
           /\ refusals' = IF way = "refused" THEN refusals + 1 ELSE refusals
    /\ UNCHANGED <<asset, lockVars, exiting, skins, decomposer, mUploads, decompVars, lastResponse,
                   notified, calls, registryVars, mHeaderReqQ, mMeshHeader, mPendingLOD,
                   sRequestHighWater, runPc, cache, poolTasks>>

\* LLMeshRepoThread::cleanup(): mShuttingDown = true, then the pool is closed.
cleanup ==
    /\ ~mShuttingDown
    /\ heap' = [heap EXCEPT !.mShuttingDown = TRUE]
    /\ UNCHANGED <<meshVarsNoHeap, exiting, mUploads, decomposer>>

\* The viewer with the byte buffers of its fetches: one object asks for LODs,
\* the worker reads bodies from the cache or from the network, the pool may
\* refuse a lambda, an allocation may fail and the worker may be told to shut
\* down at any moment.
NextBuffers ==
    \/ \E id \in MeshIds, lod \in 0 .. MaxReqLod :
          calls < MaxBufferCalls /\ loadMesh(1, id, lod)
    \/ \E sel \in DispatchOrders(HighWaterHigh), match \in Matches({1}) :
          notifyLoadedMeshes(HighWaterHigh, sel, match)
    \/ \E h \in BagToSet(mHttpRequestSet), resp \in {"ok"} : onCompletedHeader(h, resp)
    \/ RunUpdateDone
    \/ RunSkinDone
    \/ RunLODDone
    \/ \E expired \in BOOLEAN : RunHeaderStep(expired, "issued")
    \/ RunHeaderDone
    \/ \E kind \in {"lod", "skin"}, alloc \in BOOLEAN, posted \in BOOLEAN :
          FetchWithBuffer(kind, "issued", alloc, posted)
    \/ \E h \in BagToSet(mHttpRequestSet), resp \in CompletionResponses,
          alloc \in BOOLEAN, posted \in BOOLEAN : onCompletedBody(h, resp, alloc, posted)
    \/ \E t \in posted_tasks : RunLambda(t)
    \/ cleanup

SpecBuffers == Init /\ [][NextBuffers]_vars

\* A LOD or skin handler completes in this step.
BodyCompletes ==
    \E h \in BagToSet(mHttpRequestSet) : h.kind \in {"lod", "skin"} /\ Completes(h)

\* C34: a completion goes through exactly one of the handler's failure path and
\* data path, so it adds at most one unavailable entry for its request.
C34_OnePathPerCompletion ==
    [][BodyCompletes =>
          /\ Len(paths') = 1
          /\ Len(mUnavailableQ') <= Len(mUnavailableQ) + 1
          /\ Len(mSkinUnavailableQ') <= Len(mSkinUnavailableQ) + 1]_vars

\* C35: every buffer allocated so far either belongs to a lambda that has not
\* run yet, and was never deleted, or was deleted exactly once.
C35_BufferFreedOnce ==
    \A b \in DOMAIN deletes :
        deletes[b] = IF \E t \in posted_tasks : t.data = b THEN 0 ELSE 1

\* C35's case: buffers were allocated for a cache read and for an HTTP body,
\* went through a refused post and through a lambda, and all are deleted.
C35_AllBuffersGone ==
    /\ Len(deletes) = MaxBuffers
    /\ posted_tasks = {}
    /\ paths = <<"task">>
    /\ lastResponse = "corrupt"

\* C36: a lambda that runs with the shutdown flag set deletes its buffer and
\* changes nothing else: no completion or unavailable entry is pushed, no
\* request queued again, no header record and no cache file modified.
C36_ShutdownLambdaOnlyFrees ==
    [][\A t \in posted_tasks :
          (mShuttingDown /\ t \notin heap'.tasks) =>
              /\ UNCHANGED bufferVars
              /\ heap'.deletes = Delete(deletes, t.data)]_vars

\* C36's case: the last lambda ran with the flag set and its buffer is deleted.
C36_LambdaDropped ==
    /\ paths = <<"dropped">>
    /\ mShuttingDown
    /\ \E b \in DOMAIN deletes : deletes[b] = 1

\* ------------------------------------------------- the marks of a header
\* The first byte after sub-section sec of asset a, counted from the start of
\* the asset.
SectionEnd(a, sec) ==
    a.header_size + (IF sec[1] = "skin" THEN a.skin_offset + a.skin_size
                     ELSE a.lod_offset[sec[2]] + a.lod_size[sec[2]])
\* The skin and the LODs that asset a has.
Present(a) == SectionsOf(a) \cap Sections
\* The bytes a header response brings: the requested 4096 or the whole asset.
HeaderBytes(a) == Min(MESH_HEADER_SIZE, a.total)

\* C37 (as stated): when a header response has been processed, a present
\* sub-section is marked in-cache exactly when header_size + offset + size is at
\* most the number of bytes retrieved; a sub-section that ends with the last
\* byte retrieved is marked.
C37_MarkedWhenWithinBytes ==
    [][\A id \in MeshIds :
          (/\ ~hasHeader(id)
           /\ id \in DOMAIN mMeshHeader'
           /\ mMeshHeader'[id].mHeaderSize > 0
           /\ lastResponse' = "ok"
           /\ id \notin DOMAIN cache)
              => \A sec \in Present(asset[id]) :
                     HeaderBit(mMeshHeader', id, sec)
                         <=> SectionEnd(asset[id], sec) <= HeaderBytes(asset[id])]_vars

\* ------------------------------------------- the decomposer and the hulls
\* LLMeshUploadThread::run enters generateHulls for an upload of n models.
generateHulls(n) ==
    /\ decomposer.upload = "idle"
    /\ decomposer.requests = 0
    /\ decomposer' = [decomposer EXCEPT !.upload = "models", !.models = n]
    /\ UNCHANGED <<meshVarsNoHeap, heap, exiting, mUploads>>

\* One turn of the loop over the models: the constructor of DecompRequest makes
\* the new request the thread's mFinalDecomp and clears mPhysicsComplete; a
\* valid request is given to LLPhysicsDecomp::submitRequest, which pushes it
\* and signals the worker's condition.
generateHullsModel(valid) ==
    /\ decomposer.upload = "models"
    /\ decomposer.models > 0
    /\ LET request == decomposer.requests + 1
       IN  decomposer' =
               [decomposer EXCEPT
                   !.models = @ - 1,
                   !.requests = request,
                   !.mFinalDecomp = request,
                   !.mPhysicsComplete = FALSE,
                   !.mRequestQ = IF valid THEN Append(@, request) ELSE @,
                   !.at = IF valid THEN Notified(@) ELSE @,
                   !.has_valid_requests = @ \/ valid]
    /\ UNCHANGED <<meshVarsNoHeap, heap, exiting, mUploads>>

\* The loop over the models has ended: with a valid request the thread goes to
\* 'while (!mPhysicsComplete && !isDiscarded()) apr_sleep(100)', without one
\* generateHulls returns.
generateHullsSubmitted ==
    /\ decomposer.upload = "models"
    /\ decomposer.models = 0
    /\ decomposer' = [decomposer EXCEPT
                         !.upload = IF decomposer.has_valid_requests THEN "wait"
                                    ELSE "returned"]
    /\ UNCHANGED <<meshVarsNoHeap, heap, exiting, mUploads>>

\* The test of the waiting loop finds mPhysicsComplete or mDiscarded set.
generateHullsReturns ==
    /\ decomposer.upload = "wait"
    /\ decomposer.mPhysicsComplete \/ decomposer.mDiscarded
    /\ decomposer' = [decomposer EXCEPT !.upload = "returned"]
    /\ UNCHANGED <<meshVarsNoHeap, heap, exiting, mUploads>>

\* LLMeshUploadThread::discard(), called by the main thread.
discard ==
    /\ decomposer.upload # "idle"
    /\ ~decomposer.mDiscarded
    /\ decomposer' = [decomposer EXCEPT !.mDiscarded = TRUE]
    /\ UNCHANGED <<meshVarsNoHeap, heap, exiting, mUploads>>

\* LLPhysicsDecomp::run, the loop test 'while (!mQuitting)'.
HullTest ==
    /\ decomposer.at = "test"
    /\ ~mQuitting
    /\ decomposer' = [decomposer EXCEPT !.at = "wait"]
    /\ UNCHANGED <<meshVarsNoHeap, heap, exiting, mUploads>>

\* LLPhysicsDecomp::run, the call of mSignal->wait(): the thread blocks.
HullWait ==
    /\ decomposer.at = "wait"
    /\ decomposer' = [decomposer EXCEPT !.at = "waiting"]
    /\ UNCHANGED <<meshVarsNoHeap, heap, exiting, mUploads>>

\* A wait() that returns although nobody signalled.
HullSpuriousWakeup ==
    /\ decomposer.at = "waiting"
    /\ decomposer' = [decomposer EXCEPT !.at = "woken"]
    /\ UNCHANGED <<meshVarsNoHeap, heap, exiting, mUploads>>

\* The test of 'while (!mQuitting && !mRequestQ.empty())': the front request
\* becomes mCurRequest, or the thread goes back to the outer test.
HullTake ==
    /\ decomposer.at = "woken"
    /\ decomposer' =
           IF ~mQuitting /\ decomposer.mRequestQ # <<>>
           THEN [decomposer EXCEPT !.mCurRequest = Head(decomposer.mRequestQ),
                                   !.mRequestQ = Tail(@),
                                   !.at = "work"]
           ELSE [decomposer EXCEPT !.at = "test"]
    /\ UNCHANGED <<meshVarsNoHeap, heap, exiting, mUploads>>

\* doDecompositionSingleHull ends with completeCurrent(): mCurRequest goes to
\* mCompletedQ, whether the library built the hull or make_box did.
completeCurrent ==
    /\ decomposer.at = "work"
    /\ decomposer' = [decomposer EXCEPT !.mCompletedQ = Append(@, decomposer.mCurRequest),
                                        !.mCurRequest = 0,
                                        !.at = "woken"]
    /\ UNCHANGED <<meshVarsNoHeap, heap, exiting, mUploads>>

\* LLPhysicsDecomp::notifyCompleted, called by the main thread every frame:
\* completed() runs for every request of mCompletedQ; DecompRequest::completed
\* sets mPhysicsComplete if the request is the thread's mFinalDecomp.
notifyCompleted ==
    /\ decomposer.mCompletedQ # <<>>
    /\ decomposer' =
           [decomposer EXCEPT
               !.completed = @ \o decomposer.mCompletedQ,
               !.mCompletedQ = <<>>,
               !.mPhysicsComplete =
                   @ \/ decomposer.mFinalDecomp \in SeqToSet(decomposer.mCompletedQ)]
    /\ UNCHANGED <<meshVarsNoHeap, heap, exiting, mUploads>>

\* An upload thread in generateHulls, the decomposition worker and the main
\* thread's frames.
NextHulls ==
    \/ \E n \in 1 .. MaxModels : generateHulls(n)
    \/ \E valid \in BOOLEAN : generateHullsModel(valid)
    \/ generateHullsSubmitted
    \/ generateHullsReturns
    \/ discard
    \/ HullTest
    \/ HullWait
    \/ HullSpuriousWakeup
    \/ HullTake
    \/ completeCurrent
    \/ notifyCompleted

\* Every thread that can run does run: the upload thread, the worker and the
\* main thread's frames. Nothing obliges a wait() to return unsignalled, and
\* nobody has to call discard().
SpecHulls ==
    /\ Init
    /\ [][NextHulls]_vars
    /\ WF_vars(\E valid \in BOOLEAN : generateHullsModel(valid))
    /\ WF_vars(generateHullsSubmitted) /\ WF_vars(generateHullsReturns)
    /\ WF_vars(HullTest) /\ WF_vars(HullWait) /\ WF_vars(HullTake)
    /\ WF_vars(completeCurrent) /\ WF_vars(notifyCompleted)

\* The requests given to submitRequest so far.
Submitted ==
    SeqToSet(decomposer.mRequestQ) \cup SeqToSet(decomposer.mCompletedQ)
    \cup SeqToSet(decomposer.completed) \cup ({decomposer.mCurRequest} \ {0})

\* C38: every request submitted to the decomposer is in the end moved to the
\* completion queue and its completed() has run, once.
C38_SubmittedIsCompleted ==
    \A r \in 1 .. MaxModels :
        (r \in Submitted) ~>
            (Len(SelectSeq(decomposer.completed, LAMBDA x : x = r)) = 1)

\* C39: the upload thread's wait for the hulls always ends.
C39_WaitForHullsEnds ==
    (decomposer.upload = "wait") ~> (decomposer.upload = "returned")

====
